---- MODULE Spec2Model ----
(***************************************************************************)
(* The warg argument parser (warg/internal/parser): Context, Parser.Parse  *)
(* and Parser.processFlag, together with the Switch normalisation of the   *)
(* definition loaders of warg/internal/cli.                                *)
(*                                                                         *)
(* Strings are sequences of one-character strings, so that HasPrefix, len  *)
(* and arg[j] are computed as the code computes them.  Go pointers are      *)
(* indices into heaps: a *FlagDefinition is an index of defs, a *Context   *)
(* an index of ctxs, a *FlagValue an index of heap; 0 is nil.              *)
(***************************************************************************)
EXTENDS Integers, Sequences, FiniteSets, TLC

VARIABLES builder, defs, rootDefs, args, rootContext, ctxs, contextStack, parentStack,
          heap, result, i, j, pc, err, ret, scanned, valued, origin, calls, prev,
          parsers, libDefs, added, libParser, setterMap, slices, bound, walkAt, errors,
          maxRetries, attempt, lastErr, retryNext, slept, retryPc, retryRet, cache,
          cacheCalls, timeoutPath, ctxDone, resultChan, goPc, goResult, callerPc,
          timeoutRet, delivered, scriptExecutor, baseExecutor, middleware, mwI,
          chainPc, running, entered, strategy, scripts, currentEnv, wg, envChan,
          errChan, started, workers, merged, loadPc, strategyRet, loadRet, log,
          exportCurrent, exportNew, exportPc, exportScript, sharedScripts, sharedCache,
          sharedWg, sharedEnvChan, sharedErrChan, sharedStarted, goroutines, fatal,
          sharedPc, sharedRet, recScripts, recAt, recPc, recInner, stderr, recRet,
          recMerged, recStrategyRet, recHistory, pArgs, argAt, matched, curValueFlag,
          flagValues, spins, flagsPc, flagsRet

\* The state of the scan of Parser.Parse and of the lib builder.
wargVars == <<builder, defs, rootDefs, args, rootContext, ctxs, contextStack,
              parentStack, heap, result, i, j, pc, err, ret, scanned, valued, origin,
              calls, prev, parsers, libDefs, added>>

\* The state of lib.Parser.Parse after the scan: the parser called, the
\* setter map, the user's slices and variables, the position of Walk and
\* ParseResult.Errors.
applyVars == <<libParser, setterMap, slices, bound, walkAt, errors>>

\* A call of the executor made by WithRetry: maxRetries, the loop variable
\* attempt, lastErr, the results of the calls of next made so far, the
\* number of time.Sleep calls, the position in the function and what it
\* returned.
retryVars == <<maxRetries, attempt, lastErr, retryNext, slept, retryPc, retryRet>>

\* The executor made by WithCaching: the cache map of the middleware, and
\* the calls made so far, each with its script path, the result of next
\* when next was called and what the call returned.
cacheVars == <<cache, cacheCalls>>

\* A call of the executor made by WithTimeout: the script path, whether
\* ctx.Done() is closed, the buffer of resultChan, the position of the
\* goroutine and the result next gave it, the position of the caller and
\* what it returned, and whether the result was sent before or after the
\* deadline.
timeoutVars == <<timeoutPath, ctxDone, resultChan, goPc, goResult, callerPc,
                 timeoutRet, delivered>>

\* A WithMiddleware option applied to a loader and one execution of the
\* resulting executor: the loader's ScriptExecutor, the executor it had
\* before, the middleware list, the loop variable i, the position, the
\* executor the execution has reached and the middleware entered so far.
chainVars == <<scriptExecutor, baseExecutor, middleware, mwI, chainPc, running,
               entered>>

\* WshrcLoader.Load of a directory: the strategy, the scripts found, the
\* current environment, the WaitGroup counter, the buffers of envChan and
\* errChan, the number of scripts the loop has passed, the goroutines, the
\* map merged of the sequential strategy, the position, what the strategy
\* returned and what Load returned, and the calls and returns of the
\* executor in the order they happened.
loadVars == <<strategy, scripts, currentEnv, wg, envChan, errChan, started, workers,
              merged, loadPc, strategyRet, loadRet, log>>

\* A call of Environment.BuildExportScript: the maps current and new, the
\* position and the string returned.
exportVars == <<exportCurrent, exportNew, exportPc, exportScript>>

\* ParallelExecutionStrategy run with the executor made by WithCaching: the
\* scripts, the cache map of the middleware, the WaitGroup counter, the
\* buffers of envChan and errChan, the number of scripts the loop has
\* passed, the goroutines (position, result, the access to the cache map
\* under way and whether it overlapped another goroutine's write), whether
\* the runtime has stopped the process, the position of the strategy and
\* what it returned.
sharedVars == <<sharedScripts, sharedCache, sharedWg, sharedEnvChan, sharedErrChan,
                sharedStarted, goroutines, fatal, sharedPc, sharedRet>>

\* SequentialExecutionStrategy run with the executor made by
\* WithErrorRecovery: the scripts, the number of scripts the loop has
\* passed, the position, how the call of next under way ended, the lines
\* written to os.Stderr, what the executor returned, the map merged, what
\* the strategy returned, and for every call that returned how next ended
\* and what the executor returned.
recoveryVars == <<recScripts, recAt, recPc, recInner, stderr, recRet, recMerged,
                  recStrategyRet, recHistory>>

\* A call of flags.ParseArgs: the preprocessed arguments pArgs, the
\* position of the range loop in them, the flag f matched for the argument
\* (0 is nil), curValueFlag (0 is nil), the values of the variables the
\* registered flags point to, the number of calls of matchFlag made for the
\* argument, the position in the function and the error returned.
flagsVars == <<pArgs, argAt, matched, curValueFlag, flagValues, spins, flagsPc,
               flagsRet>>

\* The state of the wshrc loader and its middleware.
wshrcVars == <<retryVars, cacheVars, timeoutVars, chainVars, loadVars, exportVars,
               sharedVars, recoveryVars, flagsVars>>

\* The state outside the scan of Parser.Parse and the lib builder.
otherVars == <<applyVars, wshrcVars>>

vars == <<wargVars, otherVars>>

\* What the steps of call of the executor made by WithRetry leave alone.
besideRetry == <<wargVars, applyVars, cacheVars, timeoutVars, chainVars, loadVars,
                 exportVars, sharedVars, recoveryVars, flagsVars>>

\* What the steps of call of the executor made by WithCaching leave alone.
besideCache == <<wargVars, applyVars, retryVars, timeoutVars, chainVars, loadVars,
                 exportVars, sharedVars, recoveryVars, flagsVars>>

\* What the steps of call of the executor made by WithTimeout leave alone.
besideTimeout == <<wargVars, applyVars, retryVars, cacheVars, chainVars, loadVars,
                   exportVars, sharedVars, recoveryVars, flagsVars>>

\* What the steps of WithMiddleware option leave alone.
besideChain == <<wargVars, applyVars, retryVars, cacheVars, timeoutVars, loadVars,
                 exportVars, sharedVars, recoveryVars, flagsVars>>

\* What the steps of WshrcLoader.Load of a directory leave alone.
besideLoad == <<wargVars, applyVars, retryVars, cacheVars, timeoutVars, chainVars,
                exportVars, sharedVars, recoveryVars, flagsVars>>

\* What the steps of call of Environment.BuildExportScript leave alone.
besideExport == <<wargVars, applyVars, retryVars, cacheVars, timeoutVars, chainVars,
                  loadVars, sharedVars, recoveryVars, flagsVars>>

\* What the steps of ParallelExecutionStrategy on the executor made by WithCaching leave alone.
besideShared == <<wargVars, applyVars, retryVars, cacheVars, timeoutVars, chainVars,
                  loadVars, exportVars, recoveryVars, flagsVars>>

\* What the steps of SequentialExecutionStrategy on the executor made by WithErrorRecovery leave alone.
besideRecovery == <<wargVars, applyVars, retryVars, cacheVars, timeoutVars, chainVars,
                    loadVars, exportVars, sharedVars, flagsVars>>

\* What the steps of flags.ParseArgs leave alone.
besideFlags == <<wargVars, applyVars, retryVars, cacheVars, timeoutVars, chainVars,
                 loadVars, exportVars, sharedVars, recoveryVars>>

\* No lib.Parser.Parse is under way.
IdleApply ==
  /\ libParser = 0
  /\ setterMap = <<>>
  /\ slices = <<>>
  /\ bound = <<>>
  /\ walkAt = 0
  /\ errors = <<>>

\* No call of the executor made by WithRetry is under way.
IdleRetry ==
  /\ maxRetries = 0
  /\ attempt = 0
  /\ lastErr = "nil"
  /\ retryNext = <<>>
  /\ slept = 0
  /\ retryPc = "idle"
  /\ retryRet = <<>>

\* No call of the executor made by WithCaching is under way.
IdleCache ==
  /\ cache = <<>>
  /\ cacheCalls = <<>>

\* No call of the executor made by WithTimeout is under way.
IdleTimeout ==
  /\ timeoutPath = ""
  /\ ctxDone = FALSE
  /\ resultChan = <<>>
  /\ goPc = "idle"
  /\ goResult = <<>>
  /\ callerPc = "idle"
  /\ timeoutRet = <<>>
  /\ delivered = "no"

\* No WithMiddleware option is under way.
IdleChain ==
  /\ scriptExecutor = <<>>
  /\ baseExecutor = <<>>
  /\ middleware = <<>>
  /\ mwI = 0
  /\ chainPc = "idle"
  /\ running = <<>>
  /\ entered = <<>>

\* No WshrcLoader.Load of a directory is under way.
IdleLoad ==
  /\ strategy = "none"
  /\ scripts = <<>>
  /\ currentEnv = <<>>
  /\ wg = 0
  /\ envChan = <<>>
  /\ errChan = <<>>
  /\ started = 0
  /\ workers = <<>>
  /\ merged = <<>>
  /\ loadPc = "idle"
  /\ strategyRet = <<>>
  /\ loadRet = <<>>
  /\ log = <<>>

\* No call of Environment.BuildExportScript is under way.
IdleExport ==
  /\ exportCurrent = <<>>
  /\ exportNew = <<>>
  /\ exportPc = "idle"
  /\ exportScript = <<>>

\* No ParallelExecutionStrategy on the executor made by WithCaching is under way.
IdleShared ==
  /\ sharedScripts = <<>>
  /\ sharedCache = <<>>
  /\ sharedWg = 0
  /\ sharedEnvChan = <<>>
  /\ sharedErrChan = <<>>
  /\ sharedStarted = 0
  /\ goroutines = <<>>
  /\ fatal = FALSE
  /\ sharedPc = "idle"
  /\ sharedRet = <<>>

\* No SequentialExecutionStrategy on the executor made by WithErrorRecovery is under way.
IdleRecovery ==
  /\ recScripts = <<>>
  /\ recAt = 0
  /\ recPc = "idle"
  /\ recInner = <<>>
  /\ stderr = <<>>
  /\ recRet = <<>>
  /\ recMerged = <<>>
  /\ recStrategyRet = <<>>
  /\ recHistory = <<>>

\* No flags.ParseArgs is under way.
IdleFlags ==
  /\ pArgs = <<>>
  /\ argAt = 0
  /\ matched = 0
  /\ curValueFlag = 0
  /\ flagValues = <<>>
  /\ spins = 0
  /\ flagsPc = "idle"
  /\ flagsRet = <<>>

\* Nothing of the wshrc loader is under way, except the family f.
IdleWshrc(f) ==
  /\ f # "retry" => IdleRetry
  /\ f # "cache" => IdleCache
  /\ f # "timeout" => IdleTimeout
  /\ f # "chain" => IdleChain
  /\ f # "load" => IdleLoad
  /\ f # "export" => IdleExport
  /\ f # "shared" => IdleShared
  /\ f # "recovery" => IdleRecovery
  /\ f # "flags" => IdleFlags

IdleOther == IdleApply /\ IdleWshrc("none")

\* ------------------------------------------------------------------ bounds
MaxArgs == 3
\* Calls of Parse on one Parser, and the length of their argument lists.
MaxCalls == 2
MaxCallArgs == 1
\* Parsers built with lib.New, Parser.Flag and Parser.Context.
MaxParsers == 3
\* The length of the argument lists given to lib.Parser.Parse.
MaxApplyArgs == 4
\* The largest maxRetries given to WithRetry.
MaxMaxRetries == 2
\* Calls of the executor made by one WithCaching.
MaxCachedCalls == 3
\* The middleware given to one WithMiddleware.
MaxMiddleware == 3
\* The scripts of a .wshrc directory.
MaxScripts == 2
\* The length of the argument lists given to flags.ParseArgs.
MaxFlagArgs == 2
\* The passes of the loop around matchFlag followed for one argument.
MaxSpins == 3

\* ----------------------------------------------------------------- strings
Range(s) == {s[k] : k \in 1..Len(s)}

HasPrefix(s, p) == Len(s) >= Len(p) /\ SubSeq(s, 1, Len(p)) = p

Dash == <<"-">>
DashDash == <<"-", "-">>
Empty == <<>>

\* The argument tokens the scans are run on.
Tokens ==
  { <<"-", "v">>, <<"-", "G">>, <<"-", "c">>, <<"-", "n">>, <<"-", "R">>,
    <<"-", "-">>, <<"x">>, <<"-", "-", "g", "i", "t">>,
    <<"-", "G", "c">>, <<"-", "v", "n">>, <<"-", "c", "o">> }

RECURSIVE SeqsUpTo(_, _)
SeqsUpTo(S, n) ==
  IF n = 0 THEN {<<>>}
  ELSE LET shorter == SeqsUpTo(S, n - 1)
       IN shorter \cup {Append(s, t) : s \in {q \in shorter : Len(q) = n - 1}, t \in S}

ArgLists == SeqsUpTo(Tokens, MaxArgs)

\* ------------------------------------------------------ flag definitions
\* flags.FlagDefinition; Children holds the indices of the child definitions.
FlagDefinition(names, switch, children) ==
  [Names |-> names, Switch |-> switch, Children |-> children]

\* The spec's end-to-end definitions plus a root value flag:
\* -v, -G/--git {-c, -n}, -n.
DefsGit ==
  [Root |-> <<1, 2, 5>>,
   Defs |-> << FlagDefinition(<< <<"-", "v">> >>, TRUE, <<>>),
               FlagDefinition(<< <<"-", "G">>, <<"-", "-", "g", "i", "t">> >>, TRUE, <<3, 4>>),
               FlagDefinition(<< <<"-", "c">> >>, TRUE, <<>>),
               FlagDefinition(<< <<"-", "n">> >>, FALSE, <<>>),
               FlagDefinition(<< <<"-", "n">> >>, FALSE, <<>>) >>]

\* A context whose declared Switch is false (JSON without "switch": true).
DefsUnset ==
  [Root |-> <<1, 2>>,
   Defs |-> << FlagDefinition(<< <<"-", "v">> >>, TRUE, <<>>),
               FlagDefinition(<< <<"-", "G">>, <<"-", "-", "g", "i", "t">> >>, FALSE, <<3>>),
               FlagDefinition(<< <<"-", "c">> >>, TRUE, <<>>) >>]

\* Nested contexts, a child shadowing a root name, a two-letter short name.
DefsNested ==
  [Root |-> <<1, 2>>,
   Defs |-> << FlagDefinition(<< <<"-", "v">> >>, TRUE, <<>>),
               FlagDefinition(<< <<"-", "G">> >>, TRUE, <<3, 4, 6>>),
               FlagDefinition(<< <<"-", "v">> >>, FALSE, <<>>),
               FlagDefinition(<< <<"-", "R">> >>, TRUE, <<5>>),
               FlagDefinition(<< <<"-", "c">> >>, TRUE, <<>>),
               FlagDefinition(<< <<"-", "c", "o">> >>, TRUE, <<>>) >>]

\* Two definitions of the root level declaring the same name.
DefsDup ==
  [Root |-> <<1, 2>>,
   Defs |-> << FlagDefinition(<< <<"-", "v">> >>, TRUE, <<>>),
               FlagDefinition(<< <<"-", "v">> >>, FALSE, <<>>) >>]

RawDefSets == {DefsGit, DefsUnset, DefsNested, DefsDup}

\* How a definition list reaches NewParser.
Builders == {"direct", "json", "inline", "heredoc"}

\* Depth of the definition tree below definition d.
RECURSIVE Depth(_, _)
Depth(ds, d) ==
  IF ds[d].Children = <<>> THEN 1
  ELSE 1 + Depth(ds, CHOOSE c \in Range(ds[d].Children) :
                       \A c2 \in Range(ds[d].Children) :
                          Depth(ds, c2) <= Depth(ds, c))

\* ParseJSONDefinitions: json.Unmarshal copies names, switch and children.
ParseJSONDefinitions(raw) == raw

\* ParseInlineDefinitions: attaching children to a root flag sets its Switch;
\* only children of root flags can be written.
ParseInlineDefinitions(raw) ==
  [raw EXCEPT !.Defs =
     [d \in DOMAIN raw.Defs |->
        IF raw.Defs[d].Children # <<>>
        THEN [raw.Defs[d] EXCEPT !.Switch = TRUE]
        ELSE raw.Defs[d]]]

\* ParseHeredocDefinition: appending a child sets the parent's Switch.
ParseHeredocDefinition(raw) ==
  [raw EXCEPT !.Defs =
     [d \in DOMAIN raw.Defs |->
        IF raw.Defs[d].Children # <<>>
        THEN [raw.Defs[d] EXCEPT !.Switch = TRUE]
        ELSE raw.Defs[d]]]

\* Inline definitions reach one level of children, and rootFlags is a map
\* keyed by name, so two root flags never share a name.
InlineExpressible(raw) ==
  /\ \A k \in 1..Len(raw.Root) : Depth(raw.Defs, raw.Root[k]) <= 2
  /\ \A k1, k2 \in 1..Len(raw.Root) :
        k1 # k2 => Range(raw.Defs[raw.Root[k1]].Names)
                     \cap Range(raw.Defs[raw.Root[k2]].Names) = {}

\* The loaders differ from direct construction only on a list that has a
\* definition with children whose Switch is unset; any other list is taken
\* once, as constructed.
Loaded(b, raw) ==
  /\ b = "inline" => InlineExpressible(raw)
  /\ b # "direct" =>
        \E d \in DOMAIN raw.Defs :
           raw.Defs[d].Children # <<>> /\ ~raw.Defs[d].Switch

Build(b, raw) ==
  CASE b = "direct" -> raw
    [] b = "json" -> ParseJSONDefinitions(raw)
    [] b = "inline" -> ParseInlineDefinitions(raw)
    [] b = "heredoc" -> ParseHeredocDefinition(raw)


\* ---------------------------------------------------------------- Context
\* The definitions of a list together with all their descendants.
RECURSIVE Descendants(_, _)
Descendants(ds, level) ==
  IF level = <<>> THEN {}
  ELSE Range(level)
         \cup UNION {Descendants(ds, ds[level[k]].Children) : k \in 1..Len(level)}

\* A table that also registers the names of the children's descendants.
NewContextDeep(ds, level, parent) ==
  LET all == Descendants(ds, level)
      names == UNION {Range(ds[d].Names) : d \in all}
  IN [Flags |-> [n \in names |->
                  CHOOSE d \in all : /\ n \in Range(ds[d].Names)
                                     /\ \A d2 \in all :
                                          n \in Range(ds[d2].Names) => d2 <= d],
      Parent |-> parent]

\* NewContext: every name of every definition is registered, in order, so a
\* later definition overwrites an earlier one that declares the same name.
NewContext(ds, level, parent) ==
  LET names == UNION {Range(ds[level[k]].Names) : k \in 1..Len(level)}
      last(n) == CHOOSE k \in 1..Len(level) :
                   /\ n \in Range(ds[level[k]].Names)
                   /\ \A k2 \in (k + 1)..Len(level) : n \notin Range(ds[level[k2]].Names)
  IN [Flags |-> [n \in names |-> level[last(n)]], Parent |-> parent]

\* A lookup that never asks the parent context.
LookupOwnTable(cs, c, name) ==
  IF name \in DOMAIN cs[c].Flags THEN cs[c].Flags[name] ELSE 0

\* Context.Lookup: own table first, then the parent's Lookup; 0 is nil.
RECURSIVE Lookup(_, _, _)
Lookup(cs, c, name) ==
  IF name \in DOMAIN cs[c].Flags THEN cs[c].Flags[name]
  ELSE IF cs[c].Parent # 0 THEN Lookup(cs, cs[c].Parent, name)
  ELSE 0

\* ----------------------------------------------------------------- errors
NoError == [kind |-> "nil", flag |-> <<>>]
\* An unknown-flag error that does not carry the flag.
UnknownFlagUnnamed(flag) == [kind |-> "unknown flag", flag |-> <<>>]

\* fmt.Errorf("unknown flag: %s", flag)
UnknownFlag(flag) == [kind |-> "unknown flag", flag |-> flag]

\* A missing value that is not reported.
RequiresValueIgnored(flag) == [kind |-> "nil", flag |-> <<>>]

\* fmt.Errorf("flag %s requires a value", flag)
RequiresValue(flag) == [kind |-> "requires a value", flag |-> flag]

\* ------------------------------------------------------------- processFlag
FlagValue(def, value) ==
  [Definition |-> def, Present |-> TRUE, Value |-> value, Children |-> <<>>]

\* A search that stops at the lowest declaring level instead of the nearest.
TargetLevelFromRoot(cs, stack, flag) ==
  LET found == {l \in 1..Len(stack) : flag \in DOMAIN cs[stack[l]].Flags}
  IN IF found = {} THEN 0
     ELSE CHOOSE l \in found : \A l2 \in found : l2 >= l

\* The level of the stack, from the top down, whose own table has the flag.
TargetLevel(cs, stack, flag) ==
  LET found == {l \in 1..Len(stack) : flag \in DOMAIN cs[stack[l]].Flags}
  IN IF found = {} THEN 0
     ELSE CHOOSE l \in found : \A l2 \in found : l2 <= l

\* targetParent: parentStack[i] of that level when i > 0 (the root is level 1).
TargetParent(cs, stack, parents, flag) ==
  LET l == TargetLevel(cs, stack, flag)
  IN IF l > 1 THEN parents[l] ELSE 0

\* An attach that puts the new node in front of the list.
AttachFront(hp, res, parent, fv) ==
  LET id == Len(hp) + 1
      hp1 == Append(hp, fv)
  IN IF parent # 0
     THEN [heap |-> [hp1 EXCEPT ![parent].Children = <<id>> \o @], result |-> res]
     ELSE [heap |-> hp1, result |-> <<id>> \o res]

\* Appends the new node to targetParent.Children or to result.Flags.
Attach(hp, res, parent, fv) ==
  LET id == Len(hp) + 1
      hp1 == Append(hp, fv)
  IN IF parent # 0
     THEN [heap |-> [hp1 EXCEPT ![parent].Children = Append(@, id)], result |-> res]
     ELSE [heap |-> hp1, result |-> Append(res, id)]

\* A context pushed with the root context as its parent.
PushContextUnderRoot(ds, cs, def, current) ==
  Append(cs, NewContext(ds, ds[def].Children, 1))

\* A push that also writes the children's names into the current context.
PushContextShared(ds, cs, def, current) ==
  LET nc == NewContext(ds, ds[def].Children, current)
  IN Append([cs EXCEPT ![current].Flags = nc.Flags @@ @], nc)

\* newContext := flags.NewContext(def.Children, currentContext)
PushContext(ds, cs, def, current) ==
  Append(cs, NewContext(ds, ds[def].Children, current))

\* Parser.processFlag on the state st = [ctxs, contextStack, parentStack,
\* heap, result]; returns the state with consumed and err.
ProcessFlag(ds, flag, as, nextArgIdx, st) ==
  LET currentContext == st.contextStack[Len(st.contextStack)]
      def == Lookup(st.ctxs, currentContext, flag)
      targetParent == TargetParent(st.ctxs, st.contextStack, st.parentStack, flag)
      unchanged == [ctxs |-> st.ctxs, contextStack |-> st.contextStack,
                    parentStack |-> st.parentStack, heap |-> st.heap,
                    result |-> st.result, consumed |-> 0, err |-> NoError,
                    read |-> {}]
  IN IF def = 0 THEN [unchanged EXCEPT !.err = UnknownFlag(flag)]
     ELSE IF ds[def].Switch
     THEN LET at == Attach(st.heap, st.result, targetParent, FlagValue(def, Empty))
              id == Len(st.heap) + 1
          IN IF Len(ds[def].Children) > 0
             THEN [unchanged EXCEPT
                     !.heap = at.heap, !.result = at.result,
                     !.ctxs = PushContext(ds, st.ctxs, def, currentContext),
                     !.contextStack = Append(st.contextStack, Len(st.ctxs) + 1),
                     !.parentStack = Append(st.parentStack, id)]
             ELSE [unchanged EXCEPT !.heap = at.heap, !.result = at.result]
     ELSE IF nextArgIdx > Len(as)
     THEN [unchanged EXCEPT !.err = RequiresValue(flag)]
     ELSE LET at == Attach(st.heap, st.result, targetParent,
                           FlagValue(def, as[nextArgIdx]))
          IN [unchanged EXCEPT !.heap = at.heap, !.result = at.result,
                               !.consumed = 1, !.read = {nextArgIdx}]

\* ------------------------------------------------------------ Parser.Parse
\* No token is taken for combined short flags: every flag token is looked
\* up whole.
IsCombinedNever(arg) == FALSE

\* strings.HasPrefix(arg, "-") && !strings.HasPrefix(arg, "--") && len(arg) > 2
IsCombined(arg) == HasPrefix(arg, Dash) /\ ~HasPrefix(arg, DashDash) /\ Len(arg) > 2

ShortFlag(arg, k) == <<"-", arg[k]>>

ParseState == [ctxs |-> ctxs, contextStack |-> contextStack,
               parentStack |-> parentStack, heap |-> heap, result |-> result]

\* What Parse has returned: (result, nil) or (nil, err); Pending before that.
Pending == [done |-> FALSE, isNil |-> TRUE, Flags |-> <<>>, err |-> NoError]

\* return result, nil
ReturnResult(res) == [done |-> TRUE, isNil |-> FALSE, Flags |-> res, err |-> NoError]

\* A return that hands out the flags matched so far together with the error.
ReturnPartial(e) == [done |-> TRUE, isNil |-> FALSE, Flags |-> result, err |-> e]

\* return nil, err
ReturnError(e) == [done |-> TRUE, isNil |-> TRUE, Flags |-> <<>>, err |-> e]

\* A letter loop that goes on after a letter has consumed a value.
BreaksLoopNever(consumed) == FALSE

\* if consumed > 0 { i += consumed; break }
BreaksLoop(consumed) == consumed > 0

\* An index that leaves out the i++ of the loop.
NextIndexStuck(idx, consumed) == idx + consumed

\* An index that forgets the consumed value token.
NextIndexNoValue(idx, consumed) == idx + 1

\* i += 1 + consumed
NextIndex(idx, consumed) == idx + 1 + consumed

\* Where each FlagValue was created: the token index and the letter position
\* (0 for a single flag) of the occurrence processFlag was called for.
Origin(org, hp, hp1, idx, letter) ==
  IF Len(hp1) > Len(hp) THEN Append(org, <<idx, letter>>) ELSE org

\* NewParser on a built definition list, and the start of Parse on one of
\* the argument lists.
InitWith(lists) ==
  /\ \E b \in Builders, raw \in RawDefSets :
       /\ Loaded(b, raw)
       /\ builder = b
       /\ defs = Build(b, raw).Defs
       /\ rootDefs = Build(b, raw).Root
       /\ ctxs = <<NewContext(Build(b, raw).Defs, Build(b, raw).Root, 0)>>
  /\ args \in lists
  /\ rootContext = 1
  /\ contextStack = <<1>>
  /\ parentStack = <<0>>
  /\ heap = <<>>
  /\ result = <<>>
  /\ i = 1
  /\ j = 0
  /\ pc = "scan"
  /\ err = NoError
  /\ ret = Pending
  /\ scanned = {}
  /\ valued = {}
  /\ origin = <<>>
  /\ calls = 1
  /\ prev = "none"
  /\ parsers = <<>>
  /\ libDefs = <<>>
  /\ added = <<>>
  /\ IdleOther

Init == InitWith(ArgLists)

Scanning == pc = "scan" /\ i <= Len(args)

\* for i < len(args) is false: return result, nil
EndOfArgs ==
  /\ pc = "scan" /\ i > Len(args)
  /\ pc' = "done"
  /\ ret' = ReturnResult(result)
  /\ UNCHANGED <<builder, defs, rootDefs, args, rootContext, ctxs, contextStack,
                 parentStack, heap, result, i, j, err, scanned, valued>>
  /\ UNCHANGED <<origin, calls, prev, parsers, libDefs, added, otherVars>>

\* A separator that is skipped like a positional argument.
SeparatorSkipped ==
  /\ pc = "scan" /\ i <= Len(args) /\ args[i] = <<"-", "-">>
  /\ i' = i + 1
  /\ scanned' = scanned \cup {i}
  /\ UNCHANGED <<builder, defs, rootDefs, args, rootContext, ctxs, contextStack,
                 parentStack, heap, result, j, pc, err, ret, valued>>
  /\ UNCHANGED <<origin, calls, prev, parsers, libDefs, added, otherVars>>

\* arg == "--": i++, break, return result, nil
Separator ==
  /\ Scanning /\ args[i] = DashDash
  /\ i' = i + 1
  /\ pc' = "done"
  /\ ret' = ReturnResult(result)
  /\ scanned' = scanned \cup {i}
  /\ UNCHANGED <<builder, defs, rootDefs, args, rootContext, ctxs, contextStack,
                 parentStack, heap, result, j, err, valued>>
  /\ UNCHANGED <<origin, calls, prev, parsers, libDefs, added, otherVars>>

\* A positional argument that ends the scan like a separator.
PositionalStops ==
  /\ Scanning /\ args[i] # DashDash /\ ~HasPrefix(args[i], Dash)
  /\ i' = i + 1
  /\ pc' = "done"
  /\ ret' = ReturnResult(result)
  /\ scanned' = scanned \cup {i}
  /\ UNCHANGED <<builder, defs, rootDefs, args, rootContext, ctxs, contextStack,
                 parentStack, heap, result, j, err, valued>>
  /\ UNCHANGED <<origin, calls, prev, parsers, libDefs, added, otherVars>>

\* !strings.HasPrefix(arg, "-"): i++, continue
Positional ==
  /\ Scanning /\ args[i] # DashDash /\ ~HasPrefix(args[i], Dash)
  /\ i' = i + 1
  /\ scanned' = scanned \cup {i}
  /\ UNCHANGED <<builder, defs, rootDefs, args, rootContext, ctxs, contextStack,
                 parentStack, heap, result, j, pc, err, ret, valued>>
  /\ UNCHANGED <<origin, calls, prev, parsers, libDefs, added, otherVars>>

\* One iteration of the loop over the letters of a combined token; j is the
\* position of the letter (0 outside the loop).
CombinedFlags ==
  /\ Scanning /\ args[i] # DashDash /\ HasPrefix(args[i], Dash) /\ IsCombined(args[i])
  /\ LET jj == IF j = 0 THEN 2 ELSE j
         r == ProcessFlag(defs, ShortFlag(args[i], jj), args, i + 1, ParseState)
     IN /\ scanned' = scanned \cup {i}
        /\ valued' = valued \cup r.read
        /\ IF r.err # NoError
           THEN /\ pc' = "failed"
                /\ err' = r.err
                /\ ret' = ReturnError(r.err)
                /\ j' = jj
                /\ UNCHANGED <<ctxs, contextStack, parentStack, heap, result, i, origin>>
           ELSE /\ ctxs' = r.ctxs
                /\ origin' = Origin(origin, heap, r.heap, i, jj)
                /\ contextStack' = r.contextStack
                /\ parentStack' = r.parentStack
                /\ heap' = r.heap
                /\ result' = r.result
                /\ UNCHANGED <<pc, err, ret>>
                /\ IF BreaksLoop(r.consumed)
                   THEN i' = NextIndex(i, r.consumed) /\ j' = 0
                   ELSE IF jj = Len(args[i])
                        THEN i' = i + 1 /\ j' = 0
                        ELSE i' = i /\ j' = jj + 1
  /\ UNCHANGED <<builder, defs, rootDefs, args, rootContext>>
  /\ UNCHANGED <<calls, prev, parsers, libDefs, added, otherVars>>

\* Single flag: processFlag(arg, args, i+1, ...), i += 1 + consumed
SingleFlag ==
  /\ Scanning /\ args[i] # DashDash /\ HasPrefix(args[i], Dash) /\ ~IsCombined(args[i])
  /\ LET r == ProcessFlag(defs, args[i], args, i + 1, ParseState)
     IN /\ scanned' = scanned \cup {i}
        /\ valued' = valued \cup r.read
        /\ IF r.err # NoError
           THEN /\ pc' = "failed"
                /\ err' = r.err
                /\ ret' = ReturnError(r.err)
                /\ UNCHANGED <<ctxs, contextStack, parentStack, heap, result, i, origin>>
           ELSE /\ ctxs' = r.ctxs
                /\ origin' = Origin(origin, heap, r.heap, i, 0)
                /\ contextStack' = r.contextStack
                /\ parentStack' = r.parentStack
                /\ heap' = r.heap
                /\ result' = r.result
                /\ i' = NextIndex(i, r.consumed)
                /\ UNCHANGED <<pc, err, ret>>
  /\ UNCHANGED <<builder, defs, rootDefs, args, rootContext, j>>
  /\ UNCHANGED <<calls, prev, parsers, libDefs, added, otherVars>>

Next == EndOfArgs \/ Separator \/ Positional \/ CombinedFlags \/ SingleFlag

Spec == Init /\ [][Next]_vars

\* ------------------------------------------- repeated calls of Parse
CallArgLists == SeqsUpTo(Tokens, MaxCallArgs)

\* Another p.Parse(args) on the same Parser after the last one returned:
\* a new result, contextStack = [p.rootContext], parentStack = [nil]. The
\* contexts pushed by the earlier call are garbage; prev notes how it went.
CallAgain ==
  /\ pc \in {"done", "failed"} /\ calls < MaxCalls
  /\ args' \in CallArgLists
  /\ calls' = calls + 1
  /\ prev' = IF pc = "failed" THEN "failed"
             ELSE IF Len(contextStack) > 1 THEN "opened" ELSE "plain"
  /\ ctxs' = <<ctxs[rootContext]>>
  /\ contextStack' = <<rootContext>>
  /\ parentStack' = <<0>>
  /\ heap' = <<>>
  /\ result' = <<>>
  /\ origin' = <<>>
  /\ i' = 1
  /\ j' = 0
  /\ pc' = "scan"
  /\ err' = NoError
  /\ ret' = Pending
  /\ scanned' = {}
  /\ valued' = {}
  /\ UNCHANGED <<builder, defs, rootDefs, rootContext, parsers, libDefs, added, otherVars>>

InitCalls == InitWith(CallArgLists)

NextCalls == Next \/ CallAgain

SpecCalls == InitCalls /\ [][NextCalls]_vars

\* --------------------------------------------------- Parse as a function
\* Parser.Parse run to its return on the arguments as: the loop of the
\* actions above, iterated from token ii (letter jj of a combined token).
RECURSIVE RunParse(_, _, _, _, _)
RunParse(ds, as, st, ii, jj) ==
  IF ii > Len(as) \/ as[ii] = DashDash
  THEN [ret |-> ReturnResult(st.result), heap |-> st.heap]
  ELSE IF ~HasPrefix(as[ii], Dash)
  THEN RunParse(ds, as, st, ii + 1, 0)
  ELSE IF IsCombined(as[ii])
  THEN LET k == IF jj = 0 THEN 2 ELSE jj
           r == ProcessFlag(ds, ShortFlag(as[ii], k), as, ii + 1, st)
       IN IF r.err # NoError THEN [ret |-> ReturnError(r.err), heap |-> <<>>]
          ELSE IF BreaksLoop(r.consumed)
          THEN RunParse(ds, as, r, NextIndex(ii, r.consumed), 0)
          ELSE IF k = Len(as[ii]) THEN RunParse(ds, as, r, ii + 1, 0)
          ELSE RunParse(ds, as, r, ii, k + 1)
  ELSE LET r == ProcessFlag(ds, as[ii], as, ii + 1, st)
       IN IF r.err # NoError THEN [ret |-> ReturnError(r.err), heap |-> <<>>]
          ELSE RunParse(ds, as, r, NextIndex(ii, r.consumed), 0)

\* NewParser(defs).Parse(as): fresh stacks over the root context.
Parse(ds, root, as) ==
  RunParse(ds, as,
           [ctxs |-> <<NewContext(ds, root, 0)>>, contextStack |-> <<1>>,
            parentStack |-> <<0>>, heap |-> <<>>, result |-> <<>>],
           1, 0)

\* ------------------------------------------------------ derived notions
Nodes == 1..Len(heap)

\* The flag name the scan resolves at its position (the token, or `-` and
\* the current letter of a combined token).
CurrentFlag ==
  IF IsCombined(args[i]) THEN ShortFlag(args[i], IF j = 0 THEN 2 ELSE j)
  ELSE args[i]

\* The scan is about to resolve a flag name.
AtFlag == Scanning /\ args[i] # DashDash /\ HasPrefix(args[i], Dash)

\* The open context levels (indices of the stack) whose table declares name.
DeclaringLevels(name) ==
  {l \in 1..Len(contextStack) : name \in DOMAIN ctxs[contextStack[l]].Flags}

HasChildren(d) == defs[d].Children # <<>>

\* The step created a FlagValue.
Matched == Len(heap') = Len(heap) + 1

NewNode == Len(heap')

IsPrefix(s, t) == Len(s) <= Len(t) /\ SubSeq(t, 1, Len(s)) = s

\* The names declared by the children of definition d.
ChildNames(d) ==
  UNION {Range(defs[defs[d].Children[k]].Names) : k \in 1..Len(defs[d].Children)}

Finished == pc \in {"done", "failed"}

\* The two encodings of Parse agree on what is returned.
RunAgrees ==
  Finished => LET r == Parse(defs, rootDefs, args)
              IN r.ret = ret /\ (~ret.isNil => r.heap = heap)

\* The nodes whose match pushed a context level, and the one that pushed
\* level l of the stack (the root level 1 was pushed by none).
Openers == {n \in Nodes : defs[heap[n].Definition].Switch /\ HasChildren(heap[n].Definition)}

OpenerOf(l) == CHOOSE n \in Openers : Cardinality({m \in Openers : m < n}) = l - 2

\* The definition the open levels give for name, nearest level first; 0 when
\* no level declares it.
ResolvesTo(name) ==
  LET lv == DeclaringLevels(name)
  IN IF lv = {} THEN 0
     ELSE ctxs[contextStack[CHOOSE l1 \in lv : \A l2 \in lv : l2 <= l1]].Flags[name]

\* The definitions, of any level, that declare name.
Declaring(name) == {d \in DOMAIN defs : name \in Range(defs[d].Names)}

\* The letters of a combined token as separate one-letter flag tokens.
Letters(tok) == [k \in 1..(Len(tok) - 1) |-> <<"-", tok[k + 1]>>]

\* Every definition with children has its Switch set, as the inline and
\* heredoc loaders leave it.
Normalised == \A d \in DOMAIN defs : HasChildren(d) => defs[d].Switch

\* ------------------------------------------------------------------ claims

\* C1: during one scan a context is never closed: no step pops or shrinks
\* the context stack or the parent stack, and once a flag with children has
\* been matched no later token naming one of its children fails as an
\* unknown flag.
C1_ContextNeverCloses ==
  /\ [][IsPrefix(contextStack, contextStack') /\ IsPrefix(parentStack, parentStack')]_vars
  /\ [](\A n \in Nodes :
          HasChildren(heap[n].Definition) =>
            ~(/\ pc = "failed"
              /\ err.kind = "unknown flag"
              /\ err.flag \in ChildNames(heap[n].Definition)))

\* C2: the node of a resolved flag is appended to the Children of the node
\* that opened the nearest open level (from the top of the stack down) whose
\* table declares the name, or to the top-level list when that level is the
\* root; so every child node's definition is one of its parent's definition's
\* Children and every top-level node's definition is a root definition.
C2_AttachedAtNearestDeclaringLevel ==
  /\ [][Matched =>
          LET lv == DeclaringLevels(CurrentFlag)
              l == CHOOSE l1 \in lv : \A l2 \in lv : l2 <= l1
          IN /\ lv # {}
             /\ IF l = 1
                THEN /\ result' = Append(result, NewNode)
                     /\ \A n \in Nodes : heap'[n] = heap[n]
                ELSE /\ result' = result
                     /\ heap'[OpenerOf(l)].Children =
                          Append(heap[OpenerOf(l)].Children, NewNode)
                     /\ \A n \in Nodes \ {OpenerOf(l)} : heap'[n] = heap[n]]_vars
  /\ [](/\ \A k \in 1..Len(result) : heap[result[k]].Definition \in Range(rootDefs)
        /\ \A p \in Nodes : \A k \in 1..Len(heap[p].Children) :
             heap[heap[p].Children[k]].Definition
               \in Range(defs[heap[p].Definition].Children))

\* A flag declared by the second level was matched while a third level was
\* open, and its node went under the opener of the second level.
C2_Witness ==
  /\ Len(parentStack) >= 3
  /\ \E k \in 1..Len(heap[parentStack[2]].Children) :
       heap[parentStack[2]].Children[k] > parentStack[3]

\* C3: for a combined token whose letters, except possibly the last, are
\* switch or context flags, Parse of the token (followed by the value token
\* when the last letter is a value flag) returns the same tree or the same
\* failure as Parse of the letters given as separate tokens.
C3_CombinedCase ==
  /\ Len(args) >= 1
  /\ IsCombined(args[1])
  /\ \A k \in 2..Len(args[1]) : args[1][k] # "-"
  /\ \A k \in 1..(Len(args[1]) - 2) :
       /\ Declaring(Letters(args[1])[k]) # {}
       /\ \A d \in Declaring(Letters(args[1])[k]) : defs[d].Switch \/ HasChildren(d)
  /\ \/ Len(args) = 1
     \/ /\ Len(args) = 2
        /\ Declaring(Letters(args[1])[Len(args[1]) - 1]) # {}
        /\ \A d \in Declaring(Letters(args[1])[Len(args[1]) - 1]) :
             ~defs[d].Switch /\ ~HasChildren(d)

C3_CombinedEqualsSeparate ==
  (Finished /\ C3_CombinedCase) =>
    LET separate == Parse(defs, rootDefs, Letters(args[1]) \o Tail(args))
    IN separate.ret = ret /\ (~ret.isNil => separate.heap = heap)

\* C4: no token positioned after the first `--` token of the argument list
\* is resolved as a flag, consumed as a value or reported as an error (stated
\* for definitions whose contexts are switches, where no other claim's
\* failure is involved).
C4_NothingAfterFirstDashDash ==
  Normalised =>
    \A k \in scanned \cup valued : \A m \in 1..(k - 1) : args[m] # DashDash

\* C4 (amended): once the scan reaches a `--` token, that is the first `--`
\* not consumed as the value of a value flag, Parse returns the flags matched
\* before it and no later token is resolved, consumed or reported.
C4_ScanStopsAtSeparator ==
  \A m \in scanned :
    args[m] = DashDash =>
      /\ pc = "done"
      /\ ret = [done |-> TRUE, isNil |-> FALSE, Flags |-> result, err |-> NoError]
      /\ i = m + 1
      /\ \A k \in scanned \cup valued : k <= m
      /\ \A n \in Nodes : heap[n].Value \in {Empty} \cup {args[k] : k \in 1..(m - 1)}

\* The scan stopped at a separator that is followed by a flag token, with
\* flags matched before it.
C4_Witness ==
  \E m \in scanned :
    /\ args[m] = DashDash
    /\ m < Len(args)
    /\ HasPrefix(args[m + 1], Dash)
    /\ result # <<>>

\* C5: a value flag consumes exactly the one token that follows it: the step
\* creates one node whose Value is that token and the scan resumes after it;
\* parsing [t, v] yields exactly one FlagValue with Value = v.
C5_ValueFlagConsumesNextToken ==
  /\ [][(/\ AtFlag
         /\ ~IsCombined(args[i])
         /\ ResolvesTo(args[i]) # 0
         /\ ~defs[ResolvesTo(args[i])].Switch
         /\ i < Len(args))
        => /\ Matched
           /\ heap'[NewNode] = [Definition |-> ResolvesTo(args[i]), Present |-> TRUE,
                                Value |-> args[i + 1], Children |-> <<>>]
           /\ valued' = valued \cup {i + 1}
           /\ scanned' = scanned \cup {i}
           /\ i' = i + 2
           /\ pc' = "scan"]_vars
  /\ []((/\ Finished
         /\ Len(args) = 2
         /\ HasPrefix(args[1], Dash) /\ args[1] # DashDash /\ ~IsCombined(args[1])
         /\ args[1] \in DOMAIN ctxs[rootContext].Flags
         /\ ~defs[ctxs[rootContext].Flags[args[1]]].Switch)
        => /\ pc = "done"
           /\ Len(heap) = 1
           /\ ret.Flags = <<1>>
           /\ heap[1].Value = args[2]
           /\ scanned = {1}
           /\ i = 3)

\* A value flag took a following token that itself looks like a flag.
C5_Witness ==
  /\ pc = "done"
  /\ Len(args) = 2
  /\ Len(heap) = 1
  /\ heap[1].Value = args[2]
  /\ HasPrefix(args[2], Dash)
  /\ valued = {2}
  /\ ~HasChildren(heap[1].Definition)

\* C6: in every successful result every FlagValue has Present = true, the node
\* of a switch or context flag has Value = "" and the node of a value flag
\* has the token consumed for it; parsing [t] for a switch t yields one node.
C6_PresentAndValue ==
  pc = "done" =>
    /\ \A n \in Nodes :
         /\ heap[n].Present
         /\ (defs[heap[n].Definition].Switch \/ HasChildren(heap[n].Definition))
              => heap[n].Value = Empty
         /\ (~defs[heap[n].Definition].Switch /\ ~HasChildren(heap[n].Definition))
              => \E k \in valued : heap[n].Value = args[k]
    /\ (/\ Len(args) = 1
        /\ args[1] \in DOMAIN ctxs[rootContext].Flags
        /\ defs[ctxs[rootContext].Flags[args[1]]].Switch
        /\ ~IsCombined(args[1]))
         => Len(heap) = 1 /\ ret.Flags = <<1>>

\* C7: a flag name declared in no table of the current context chain makes
\* Parse fail with an unknown-flag error that identifies the literal token
\* of the argument list, with no result.
C7_UnknownFlagNamesToken ==
  [][(AtFlag /\ DeclaringLevels(CurrentFlag) = {})
     => /\ pc' = "failed"
        /\ err' = [kind |-> "unknown flag", flag |-> args[i]]
        /\ ret' = [done |-> TRUE, isNil |-> TRUE, Flags |-> <<>>, err |-> err']]_vars

\* C7 (amended): the unknown-flag error identifies the flag name that was
\* looked up: the token when it is given alone, `-` and the letter when it is
\* a letter of a combined token (not the combined token).
C7_UnknownFlagNamesLookedUpFlag ==
  [][(AtFlag /\ DeclaringLevels(CurrentFlag) = {})
     => /\ pc' = "failed"
        /\ err' = [kind |-> "unknown flag", flag |-> CurrentFlag]
        /\ ret' = [done |-> TRUE, isNil |-> TRUE, Flags |-> <<>>, err |-> err']]_vars

\* A later letter of a combined token failed as an unknown flag after flags
\* had been matched.
C7_Witness ==
  /\ pc = "failed"
  /\ err.kind = "unknown flag"
  /\ IsCombined(args[i])
  /\ j > 2
  /\ err.flag = <<"-", args[i][j]>>
  /\ heap # <<>>

\* C8: a value flag matched as a single token or as a letter of a combined
\* token with no token after it makes Parse fail with a missing-value error
\* identifying the flag, with no result.
C8_MissingValue ==
  [][(/\ AtFlag
      /\ ResolvesTo(CurrentFlag) # 0
      /\ ~defs[ResolvesTo(CurrentFlag)].Switch
      /\ i = Len(args))
     => /\ pc' = "failed"
        /\ err' = [kind |-> "requires a value", flag |-> CurrentFlag]
        /\ ret' = [done |-> TRUE, isNil |-> TRUE, Flags |-> <<>>, err |-> err']
        /\ heap' = heap]_vars

\* The last letter of a combined token that ends the list lacks its value.
C8_Witness ==
  /\ pc = "failed"
  /\ err.kind = "requires a value"
  /\ i = Len(args)
  /\ IsCombined(args[i])
  /\ j = Len(args[i])
  /\ err.flag = <<"-", args[i][j]>>
  /\ ~HasChildren(ResolvesTo(err.flag))
  /\ heap # <<>>

\* C9: at the first failure Parse returns at once with a nil result and that
\* one error: no token after the failing one is examined, nothing more is
\* matched, and the flags matched before are not delivered.
C9_FirstFailureOnly ==
  /\ [][pc' = "failed" =>
          /\ pc = "scan"
          /\ err' # NoError
          /\ ret' = [done |-> TRUE, isNil |-> TRUE, Flags |-> <<>>, err |-> err']
          /\ i' = i
          /\ heap' = heap /\ result' = result
          /\ \A k \in scanned' \cup valued' : k <= i]_vars
  /\ [][pc = "failed" => UNCHANGED vars]_vars
  /\ [](pc = "scan" => err = NoError /\ ret = Pending)

\* Parse failed after it had matched flags and before the end of the list.
C9_Witness ==
  /\ pc = "failed"
  /\ heap # <<>>
  /\ i < Len(args)
  /\ ret.isNil

\* C10: a definition with non-empty Children is treated as a switch whatever
\* its declared Switch and however the definitions were built: matching it
\* consumes no value token and opens its child context.
C10_ChildrenImplySwitch ==
  /\ [][(Matched /\ HasChildren(heap'[NewNode].Definition))
        => /\ heap'[NewNode].Value = Empty
           /\ valued' = valued
           /\ Len(contextStack') = Len(contextStack) + 1
           /\ DOMAIN ctxs'[contextStack'[Len(contextStack')]].Flags
                = ChildNames(heap'[NewNode].Definition)
           /\ parentStack' = Append(parentStack, NewNode)]_vars
  /\ [](pc = "failed" /\ err.kind = "requires a value"
          => ~HasChildren(ResolvesTo(err.flag)))

\* ---------------------------------------------------- claims C11 to C20

\* The definitions of one level: the list a context's table was built from.
\* Context k of ctxs is level k of the stack; level 1 is the root list, a
\* higher level the Children of the definition whose match pushed it.
LevelDefs(l) ==
  IF l = 1 THEN rootDefs ELSE defs[heap[OpenerOf(l)].Definition].Children

\* Two definitions of the list declare the same name.
DuplicateNames(level) ==
  \E k1, k2 \in 1..Len(level) :
     /\ k1 # k2
     /\ Range(defs[level[k1]].Names) \cap Range(defs[level[k2]].Names) # {}

\* C11: NewContext rejects a definition list in which two definitions of the
\* same level declare the same name, instead of letting the later one win:
\* no context table exists that was built from such a list.
C11_DuplicateNamesRejected ==
  \A l \in 1..Len(contextStack) : ~DuplicateNames(LevelDefs(l))

\* The flag names a scan can look up: the tokens and the letters of the
\* combined tokens.
FlagNames ==
  Tokens \cup UNION {Range(Letters(t)) : t \in {t2 \in Tokens : IsCombined(t2)}}

\* C12: Lookup returns the definition of the context's own table when it
\* declares the name, otherwise the answer of the parent's Lookup, otherwise
\* none: from any open level the answer is the entry of the nearest level at
\* or below it that declares the name (an inner declaration shadows an outer
\* one), a definition is returned only for a name it declares, and the
\* definition a matched flag carries is the one its lookup names.
C12_LookupNearestTable ==
  /\ [](\A l \in 1..Len(contextStack), name \in FlagNames :
          LET below == {k \in 1..l : name \in DOMAIN ctxs[contextStack[k]].Flags}
              d == Lookup(ctxs, contextStack[l], name)
          IN /\ below = {} => d = 0
             /\ below # {} =>
                  d = ctxs[contextStack[CHOOSE k \in below :
                                          \A k2 \in below : k2 <= k]].Flags[name]
             /\ d # 0 => name \in Range(defs[d].Names))
  /\ [][(AtFlag /\ Matched)
        => /\ heap'[NewNode].Definition = ResolvesTo(CurrentFlag)
           /\ CurrentFlag \in Range(defs[heap'[NewNode].Definition].Names)]_vars
  /\ [][(AtFlag /\ ResolvesTo(CurrentFlag) = 0)
        => pc' = "failed" /\ err'.kind = "unknown flag"]_vars

\* Inside an opened context one flag was resolved by the context's own
\* table although the root declares the name too, and another one through
\* the parent link.
C12_Witness ==
  /\ Len(contextStack) >= 2
  /\ \E n, m \in Nodes, name \in FlagNames :
       /\ name \in DOMAIN ctxs[contextStack[1]].Flags
       /\ name \in DOMAIN ctxs[contextStack[2]].Flags
       /\ ctxs[contextStack[1]].Flags[name] # ctxs[contextStack[2]].Flags[name]
       /\ heap[n].Definition = ctxs[contextStack[2]].Flags[name]
       /\ m > OpenerOf(2)
       /\ heap[m].Definition \in Range(rootDefs)
       /\ Range(defs[heap[m].Definition].Names)
            \cap DOMAIN ctxs[contextStack[2]].Flags = {}

\* ------------------------------------------------ ParseResult.Find, Walk
\* for _, flag := range list { if found := flag.Find(name); found != nil
\* { return found } }; return nil -- from position k of the list on.
RECURSIVE FindInList(_, _, _, _, _), FlagValueFind(_, _, _, _)
FindInList(ds, hp, list, k, name) ==
  IF k > Len(list) THEN 0
  ELSE LET found == FlagValueFind(ds, hp, list[k], name)
       IN IF found # 0 THEN found ELSE FindInList(ds, hp, list, k + 1, name)

\* FlagValue.Find: the node itself when its definition has the name, else
\* the first answer among its children.
FlagValueFind(ds, hp, n, name) ==
  IF name \in Range(ds[hp[n].Definition].Names) THEN n
  ELSE FindInList(ds, hp, hp[n].Children, 1, name)

\* A search that keeps the answer of the last root flag that has one.
ResultFindLast(ds, hp, res, name) ==
  LET hits == {k \in 1..Len(res) : FlagValueFind(ds, hp, res[k], name) # 0}
  IN IF hits = {} THEN 0
     ELSE FlagValueFind(ds, hp, res[CHOOSE k \in hits : \A k2 \in hits : k2 <= k], name)

\* ParseResult.Find
ResultFind(ds, hp, res, name) == FindInList(ds, hp, res, 1, name)

\* FlagValue.Walk and ParseResult.Walk, as the sequence of nodes fn is
\* called with.
RECURSIVE WalkList(_, _, _), FlagValueWalk(_, _)
WalkList(hp, list, k) ==
  IF k > Len(list) THEN <<>>
  ELSE FlagValueWalk(hp, list[k]) \o WalkList(hp, list, k + 1)

FlagValueWalk(hp, n) == <<n>> \o WalkList(hp, hp[n].Children, 1)

ResultWalk(hp, res) == WalkList(hp, res, 1)

NodeNames(n) == Range(defs[heap[n].Definition].Names)

\* C13 as claimed: for every node n of a returned result and every name d
\* of its definition, result.Find(d) returns n itself, also when the flag
\* occurs several times or the name is declared at several levels.
C13_FindReturnsEveryNode ==
  (Normalised /\ pc = "done")
    => \A n \in Nodes : \A d \in NodeNames(n) :
          ResultFind(defs, heap, result, d) = n

\* C13 as amended: result.Find(name) is the first node, in the pre-order
\* Walk visits, whose definition declares the name, and none when no node
\* does; so for a node n and a name d of its definition Find(d) is a node
\* declaring d, and it is n itself exactly when no node before n in that
\* order declares d.
C13_FindFirstInWalkOrder ==
  pc = "done"
    => LET w == ResultWalk(heap, result)
           hits(name) == {k \in 1..Len(w) : name \in NodeNames(w[k])}
           first(name) == CHOOSE k \in hits(name) : \A k2 \in hits(name) : k <= k2
       IN /\ Len(w) = Len(heap) /\ Range(w) = Nodes
          /\ \A name \in FlagNames :
               ResultFind(defs, heap, result, name)
                 = IF hits(name) = {} THEN 0 ELSE w[first(name)]
          /\ \A n \in Nodes : \A d \in NodeNames(n) :
               LET f == ResultFind(defs, heap, result, d)
               IN /\ f # 0 /\ d \in NodeNames(f)
                  /\ (f = n) <=> (w[first(d)] = n)

\* A returned result in which two nodes declare the same name: Find gives
\* the first of them, and the second is not what Find returns.
C13_Witness ==
  /\ pc = "done"
  /\ \E n, m \in Nodes : \E d \in NodeNames(n) \cap NodeNames(m) :
       /\ n # m
       /\ ResultFind(defs, heap, result, d) = n

\* C14: Parse keeps no state between calls.  No step of a call changes what
\* the Parser holds (the definitions and the root context with its table),
\* and whatever calls came before, every call returns what the first call
\* of a newly built Parser returns for the same arguments, so calls with
\* equal arguments return equal results.
C14_ParseKeepsNoState ==
  /\ [][/\ defs' = defs
        /\ rootDefs' = rootDefs
        /\ rootContext' = rootContext
        /\ ctxs'[rootContext'] = ctxs[rootContext]]_vars
  /\ [](Finished => LET r == Parse(defs, rootDefs, args)
                    IN r.ret = ret /\ (~ret.isNil => r.heap = heap))

\* A second call that fails on a child's name as an unknown flag although
\* the call before it had opened contexts.
C14_Witness ==
  /\ calls = 2
  /\ prev = "opened"
  /\ pc = "failed"
  /\ err.kind = "unknown flag"
  /\ Declaring(err.flag) # {}
  /\ err.flag \notin DOMAIN ctxs[rootContext].Flags

\* The letter of a combined token the scan is at.
Letter == IF j = 0 THEN 2 ELSE j

C16_OnlyLastLetterTakesValue ==
  (Normalised /\ ~DuplicateNames(rootDefs))
    => \A n \in Nodes :
          (origin[n][2] > 0 /\ ~defs[heap[n].Definition].Switch)
            => origin[n][2] = Len(args[origin[n][1]])

\* The lists of the result tree: result.Flags and every node's Children.
Lists == {result} \cup {heap[n].Children : n \in Nodes}

\* How often node n occurs in result.Flags and in the Children lists.
Occurrences(n) ==
  Cardinality({k \in 1..Len(result) : result[k] = n})
  + Cardinality({pk \in Nodes \X (1..Len(heap)) :
                   /\ pk[2] <= Len(heap[pk[1]].Children)
                   /\ heap[pk[1]].Children[pk[2]] = n})

\* Occurrence a comes before occurrence b in the token list.
Before(a, b) == a[1] < b[1] \/ (a[1] = b[1] /\ a[2] < b[2])

\* C17: Parse creates exactly one FlagValue for every flag occurrence it
\* matches, so repeated occurrences give separate nodes; every node is in
\* exactly one list (result.Flags or one node's Children), and each list is
\* in the order in which the tokens of its nodes occurred.
C17_OneNodePerOccurrence ==
  /\ [][IF AtFlag /\ pc' # "failed"
        THEN /\ Len(heap') = Len(heap) + 1
             /\ \A n \in Nodes :
                  heap'[n] = [heap[n] EXCEPT !.Children = heap'[n].Children]
             /\ origin'[NewNode] = <<i, IF IsCombined(args[i]) THEN Letter ELSE 0>>
        ELSE heap' = heap /\ result' = result]_vars
  /\ [](/\ Len(origin) = Len(heap)
        /\ \A n \in Nodes : Occurrences(n) = 1
        /\ \A n, m \in Nodes : n # m => origin[n] # origin[m]
        /\ \A list \in Lists : \A a, b \in 1..Len(list) :
             a < b => Before(origin[list[a]], origin[list[b]]))

\* Parse returned a tree in which one Children list holds two nodes of the
\* same definition, from two occurrences of the same flag.
C17_Witness ==
  /\ pc = "done"
  /\ \E p \in Nodes :
       /\ Len(heap[p].Children) >= 2
       /\ heap[heap[p].Children[1]].Definition = heap[heap[p].Children[2]].Definition
       /\ heap[p].Children[1] # heap[p].Children[2]

\* C18: a token that does not start with `-` and that the scan reaches (it
\* was not consumed as the value of the value flag before it) is skipped:
\* it creates no FlagValue, raises no error, leaves both stacks and the
\* contexts as they are, and the scan goes on with the next token.
C18_PositionalSkipped ==
  /\ [][(Scanning /\ ~HasPrefix(args[i], Dash))
        => /\ heap' = heap /\ result' = result
           /\ ctxs' = ctxs
           /\ contextStack' = contextStack /\ parentStack' = parentStack
           /\ valued' = valued
           /\ err' = NoError /\ ret' = Pending
           /\ pc' = "scan" /\ i' = i + 1 /\ j' = j]_vars
  /\ [](\A n \in Nodes : HasPrefix(args[origin[n][1]], Dash))
  /\ [](\A k \in 1..Len(args) :
          (pc = "scan" /\ k < i /\ ~HasPrefix(args[k], Dash))
            => (k \in scanned) # (k \in valued))

\* A positional token was skipped and a flag after it was matched.
C18_Witness ==
  \E k \in scanned : \E n \in Nodes :
     /\ ~HasPrefix(args[k], Dash)
     /\ k \notin valued
     /\ origin[n][1] > k

\* The definitions that list definition d among their Children.
ParentDefs(d) == {p \in DOMAIN defs : d \in Range(defs[p].Children)}

\* The name is declared, and only by definitions that are children (of
\* context flags), never by a definition of the root list.
ChildOnly(name) ==
  /\ Declaring(name) # {}
  /\ \A d \in Declaring(name) : d \notin Range(rootDefs) /\ ParentDefs(d) # {}

\* None of the context flags that declare the name among their children
\* has been matched so far.
ContextUnmatched(name) ==
  \A d \in Declaring(name) : \A p \in ParentDefs(d) :
     \A n \in Nodes : heap[n].Definition # p

\* C19: a name declared only among the Children of a context flag cannot
\* be resolved until that context flag has been matched earlier in the same
\* argument list: looked up before it, the name fails as an unknown flag,
\* and its definition is in no table of an open level.
C19_ChildNameNeedsContext ==
  /\ [][(AtFlag /\ ChildOnly(CurrentFlag) /\ ContextUnmatched(CurrentFlag))
        => /\ pc' = "failed"
           /\ err' = UnknownFlag(CurrentFlag)
           /\ ret' = ReturnError(UnknownFlag(CurrentFlag))
           /\ heap' = heap]_vars
  /\ [](\A name \in UNION {Range(defs[d].Names) : d \in DOMAIN defs} :
          (ChildOnly(name) /\ ContextUnmatched(name))
            => /\ DeclaringLevels(name) = {}
               /\ Lookup(ctxs, contextStack[Len(contextStack)], name) = 0)

\* Parse failed on a child's name as an unknown flag, and the context flag
\* that declares it comes later in the list.
C19_Witness ==
  /\ pc = "failed"
  /\ err.kind = "unknown flag"
  /\ ChildOnly(err.flag)
  /\ ContextUnmatched(err.flag)
  /\ \E k \in (i + 1)..Len(args) : \E d \in Declaring(err.flag) :
       \E p \in ParentDefs(d) : args[k] \in Range(defs[p].Names)

\* ------------------------------------------------- lib.Parser (builder)
\* A *lib.Parser is an index of parsers; its definitions are indices of
\* libDefs (Go copies the FlagDefinition values; the copies stay equal to
\* the entries as long as no entry is written).  A setter is its names and
\* the variable its fn writes (ptr: the variable bound by the Flag call that
\* made definition ptr, a bool when createSetter found one); sliceContexts maps a context key to the setters of
\* the context's children.

\* Names as the caller gives them to Flag and Context.
LibNames == {<<"v">>, <<"n">>, <<"g", "i", "t">>, <<"-", "c">>}

NameLists == {<<a>> : a \in LibNames}

\* normalizeFlagName
normalizeFlagName(name) ==
  IF HasPrefix(name, Dash) THEN name
  ELSE IF Len(name) = 1 THEN Dash \o name
  ELSE DashDash \o name

NormalizedNames(names) == [k \in 1..Len(names) |-> normalizeFlagName(names[k])]

\* lib.New
New == [definitions |-> <<>>, setters |-> <<>>, sliceContexts |-> <<>>]

\* A Flag that appends to the receiver's own definitions as well.
ParserFlagInPlace(ps, dh, p, names, isSwitch) ==
  LET id == Len(dh) + 1
      nn == NormalizedNames(names)
      p2 == [definitions |-> Append(ps[p].definitions, id),
             setters |-> Append(ps[p].setters,
                                [names |-> nn, ptr |-> id, isBool |-> isSwitch]),
             sliceContexts |-> ps[p].sliceContexts]
  IN [parsers |-> Append([ps EXCEPT ![p].definitions = Append(@, id)], p2),
      libDefs |-> Append(dh, FlagDefinition(nn, isSwitch, <<>>))]

\* Parser.Flag: new slices with the receiver's entries copied and the new
\* definition and setter in the last place; isSwitch is what createSetter
\* finds for the pointer's type.
ParserFlag(ps, dh, p, names, isSwitch) ==
  LET id == Len(dh) + 1
      nn == NormalizedNames(names)
      p2 == [definitions |-> Append(ps[p].definitions, id),
             setters |-> Append(ps[p].setters,
                                [names |-> nn, ptr |-> id, isBool |-> isSwitch]),
             sliceContexts |-> ps[p].sliceContexts]
  IN [parsers |-> Append(ps, p2),
      libDefs |-> Append(dh, FlagDefinition(nn, isSwitch, <<>>))]

\* Parser.Context (contextSingle for a struct pointer, contextSlice for a
\* slice pointer): sub is the Parser the builder returned.
ParserContext(ps, dh, p, names, sub, kind) ==
  LET id == Len(dh) + 1
      nn == NormalizedNames(names)
      p2 == [definitions |-> Append(ps[p].definitions, id),
             setters |-> IF kind = "struct" THEN ps[p].setters \o ps[sub].setters
                         ELSE ps[p].setters,
             sliceContexts |-> IF kind = "slice"
                               THEN (nn[1] :> [childSetters |-> ps[sub].setters])
                                      @@ ps[p].sliceContexts
                               ELSE ps[p].sliceContexts]
  IN [parsers |-> Append(ps, p2),
      libDefs |-> Append(dh, FlagDefinition(nn, TRUE, ps[sub].definitions))]

\* The error lib.Parser.Parse puts in result.Errors when the internal
\* parser fails: parser.NewParser(p.definitions).Parse(args).
LibParseError(ps, dh, p, as) == Parse(dh, ps[p].definitions, as).ret.err

\* The flag names parser p recognizes: those that do not fail as unknown.
Recognized(ps, dh, p) ==
  {normalizeFlagName(a) : a \in {b \in LibNames :
      LibParseError(ps, dh, p, <<normalizeFlagName(b)>>)
        # UnknownFlag(normalizeFlagName(b))}}

\* added[q] notes how parser q was made: the receiver, the names added and
\* the names the receiver recognized at that moment.
Made(how, p, names) ==
  [how |-> how, from |-> p, names |-> NormalizedNames(names),
   known |-> IF p = 0 THEN {} ELSE Recognized(parsers, libDefs, p)]

InitLib ==
  /\ parsers = <<New>>
  /\ libDefs = <<>>
  /\ added = <<[how |-> "New", from |-> 0, names |-> <<>>, known |-> {}]>>
  /\ builder = "direct"
  /\ defs = <<>>
  /\ rootDefs = <<>>
  /\ args = <<>>
  /\ rootContext = 0
  /\ ctxs = <<>>
  /\ contextStack = <<>>
  /\ parentStack = <<>>
  /\ heap = <<>>
  /\ result = <<>>
  /\ i = 1
  /\ j = 0
  /\ pc = "idle"
  /\ err = NoError
  /\ ret = Pending
  /\ scanned = {}
  /\ valued = {}
  /\ origin = <<>>
  /\ calls = 0
  /\ prev = "none"
  /\ IdleOther

\* p2 := p.Flag(ptr, names, description)
Flag ==
  /\ Len(parsers) < MaxParsers
  /\ \E p \in 1..Len(parsers), names \in NameLists, isSwitch \in BOOLEAN :
       LET r == ParserFlag(parsers, libDefs, p, names, isSwitch)
       IN /\ parsers' = r.parsers
          /\ libDefs' = r.libDefs
          /\ added' = Append(added, Made("Flag", p, names))
  /\ UNCHANGED <<builder, defs, rootDefs, args, rootContext, ctxs, contextStack,
                 parentStack, heap, result, i, j, pc, err, ret, scanned, valued,
                 origin, calls, prev, otherVars>>

\* p2 := p.Context(ptr, names, description, builder)
Context ==
  /\ Len(parsers) < MaxParsers
  /\ \E p \in 1..Len(parsers), names \in NameLists, sub \in 1..Len(parsers),
        kind \in {"struct", "slice"} :
       LET r == ParserContext(parsers, libDefs, p, names, sub, kind)
       IN /\ parsers' = r.parsers
          /\ libDefs' = r.libDefs
          /\ added' = Append(added, Made("Context", p, names))
  /\ UNCHANGED <<builder, defs, rootDefs, args, rootContext, ctxs, contextStack,
                 parentStack, heap, result, i, j, pc, err, ret, scanned, valued,
                 origin, calls, prev, otherVars>>

NextLib == Flag \/ Context

SpecLib == InitLib /\ [][NextLib]_vars

\* C20: lib.Parser.Flag and lib.Parser.Context never modify their receiver:
\* no step changes an existing parser, a definition it holds or the set of
\* flags it recognizes, so a flag added only to a derived parser is an
\* unknown flag for the parser it was derived from.
C20_ReceiverUnchanged ==
  /\ [][\A p \in 1..Len(parsers) :
          /\ parsers'[p] = parsers[p]
          /\ \A d \in 1..Len(libDefs) : libDefs'[d] = libDefs[d]
          /\ Recognized(parsers', libDefs', p) = Recognized(parsers, libDefs, p)]_vars
  /\ [](\A q \in 1..Len(parsers) :
          added[q].from # 0 =>
            /\ Recognized(parsers, libDefs, added[q].from) = added[q].known
            /\ \A name \in Range(added[q].names) \ added[q].known :
                 /\ LibParseError(parsers, libDefs, added[q].from, <<name>>)
                      = UnknownFlag(name)
                 /\ LibParseError(parsers, libDefs, q, <<name>>) # UnknownFlag(name))

\* One parser gave a derived parser a new flag through Flag and another one
\* through Context, and recognizes neither itself.
C20_Witness ==
  \E q1, q2 \in 1..Len(parsers) :
     /\ added[q1].how = "Flag" /\ added[q2].how = "Context"
     /\ added[q1].from = added[q2].from
     /\ \A q \in {q1, q2} :
          /\ added[q].names[1] \notin added[q].known
          /\ LibParseError(parsers, libDefs, added[q].from, <<added[q].names[1]>>)
               = UnknownFlag(added[q].names[1])
          /\ LibParseError(parsers, libDefs, q, <<added[q].names[1]>>)
               # UnknownFlag(added[q].names[1])

\* ---------------------------------------- claims C21 to C30: lib.Parse
\* lib.Parser.Parse: parser.NewParser(p.definitions).Parse(args), then
\* applySetters.  The scan is the one of Spec, on the definitions of a lib
\* parser; pc goes on from "done" to "apply" and "returned".

\* The README's repeatable context, with root flags beside it:
\*   var add []struct{ n string; s bool }; var v bool; var n string
\*   New().Context(&add, {"A"}, .., func(p, e) { return p.Flag(&e.n, {"n"}).Flag(&e.s, {"s"}) })
\*        .Flag(&v, {"v"}).Flag(&n, {"n"})
\* Parsers 2 and 3 are what the builder returns, parser 6 is the result.
SliceFixture ==
  LET r1 == ParserFlag(<<New>>, <<>>, 1, << <<"n">> >>, FALSE)
      r2 == ParserFlag(r1.parsers, r1.libDefs, 2, << <<"s">> >>, TRUE)
      r3 == ParserContext(r2.parsers, r2.libDefs, 1, << <<"A">> >>, 3, "slice")
      r4 == ParserFlag(r3.parsers, r3.libDefs, 4, << <<"v">> >>, TRUE)
  IN ParserFlag(r4.parsers, r4.libDefs, 5, << <<"n">> >>, FALSE)

ApplyTokens == {<<"-", "A">>, <<"-", "n">>, <<"-", "s">>, <<"-", "v">>, <<"x">>,
                <<"-", "s", "n">>, DashDash}

ApplyArgLists == SeqsUpTo(ApplyTokens, MaxApplyArgs)

\* The string a switch's setter is called with, and strconv.ParseBool of it.
True == <<"t", "r", "u", "e">>

ParseBool(value) ==
  value \in {<<"1">>, <<"t">>, <<"T">>, True, <<"T", "R", "U", "E">>,
             <<"T", "r", "u", "e">>}

\* The zero value of the variable a setter writes.
Zero(st) == IF st.isBool THEN FALSE ELSE Empty

\* What a setter stores for the string it is called with
\* (createBoolSetter, createStringSetter).
Stored(st, value) == IF st.isBool THEN ParseBool(value) ELSE value

\* setterMap[name] = s.fn for every name of every setter, in order: the
\* later setter of a name wins.  A target is the setter with the slice
\* element it writes (key <<>>, elem 0: a variable of its own).
Target(st, key, elem) ==
  [key |-> key, elem |-> elem, ptr |-> st.ptr, isBool |-> st.isBool]

SetterMap(setters, key, elem) ==
  LET names == UNION {Range(setters[k].names) : k \in 1..Len(setters)}
      last(n) == CHOOSE k \in 1..Len(setters) :
                   /\ n \in Range(setters[k].names)
                   /\ \A k2 \in (k + 1)..Len(setters) : n \notin Range(setters[k2].names)
  IN [n \in names |-> Target(setters[last(n)], key, elem)]

\* reflect.New(sliceCtx.elemType).Elem(): an element with zero fields.
NewElement(childSetters) ==
  [f \in {childSetters[k].ptr : k \in 1..Len(childSetters)} |->
     Zero(childSetters[CHOOSE k \in 1..Len(childSetters) : childSetters[k].ptr = f])]

\* Element setters that all write the first element of the slice.
ElementSettersFirst(childSetters, key, currentIndex) ==
  SetterMap(childSetters, key, 1)

\* elemParser.setters: the builder run again with the address of element
\* currentIndex binds the children's setters to that element.
ElementSetters(childSetters, key, currentIndex) ==
  SetterMap(childSetters, key, currentIndex)

\* The callback applySetters gives to Walk, for node fv, on the state
\* st = [setterMap, slices, bound] of parser p.
ApplySetter(p, ds, fv, st) ==
  LET names == ds[fv.Definition].Names
      ctxAt == {k \in 1..Len(names) : names[k] \in DOMAIN p.sliceContexts}
      setAt == {k \in 1..Len(names) : names[k] \in DOMAIN st.setterMap}
      first(ks) == CHOOSE k \in ks : \A k2 \in ks : k <= k2
  IN IF ctxAt # {}
     THEN LET key == names[first(ctxAt)]
              children == p.sliceContexts[key].childSetters
              currentIndex == Len(st.slices[key]) + 1
          IN IF fv.Present
             THEN [st EXCEPT
                     !.slices[key] = Append(@, NewElement(children)),
                     !.setterMap = ElementSetters(children, key, currentIndex) @@ @]
             ELSE st
     ELSE IF setAt = {} THEN st
     ELSE LET t == st.setterMap[names[first(setAt)]]
              value == IF ds[fv.Definition].Switch THEN True ELSE fv.Value
          IN IF ~fv.Present THEN st
             ELSE IF t.elem = 0
             THEN [st EXCEPT !.bound[t.ptr] = Stored(t, value)]
             ELSE [st EXCEPT !.slices[t.key][t.elem][t.ptr] = Stored(t, value)]

ApplyState == [setterMap |-> setterMap, slices |-> slices, bound |-> bound]

\* p.Parse(args) begins: a new internal parser on p.definitions, the
\* user's slices empty and variables zero.
InitApplyOn(fx, lists) ==
  /\ parsers = fx.parsers
  /\ libDefs = fx.libDefs
  /\ added = <<>>
  /\ libParser = Len(fx.parsers)
  /\ builder = "lib"
  /\ defs = libDefs
  /\ rootDefs = parsers[libParser].definitions
  /\ ctxs = <<NewContext(libDefs, parsers[libParser].definitions, 0)>>
  /\ args \in lists
  /\ rootContext = 1
  /\ contextStack = <<1>>
  /\ parentStack = <<0>>
  /\ heap = <<>>
  /\ result = <<>>
  /\ i = 1
  /\ j = 0
  /\ pc = "scan"
  /\ err = NoError
  /\ ret = Pending
  /\ scanned = {}
  /\ valued = {}
  /\ origin = <<>>
  /\ calls = 1
  /\ prev = "none"
  /\ setterMap = <<>>
  /\ slices = [key \in DOMAIN parsers[libParser].sliceContexts |-> <<>>]
  /\ bound = [f \in {parsers[libParser].setters[k].ptr :
                       k \in 1..Len(parsers[libParser].setters)} |->
                Zero(parsers[libParser].setters[
                       CHOOSE k \in 1..Len(parsers[libParser].setters) :
                          parsers[libParser].setters[k].ptr = f])]
  /\ walkAt = 0
  /\ errors = <<>>
  /\ IdleWshrc("none")

InitApply == InitApplyOn(SliceFixture, ApplyArgLists)

scanVars == <<builder, defs, rootDefs, args, rootContext, ctxs, contextStack,
              parentStack, heap, result, i, j, err, ret, scanned, valued, origin,
              calls, prev>>

\* A failure that is recorded and followed by applySetters all the same.
ParseFailedApplies ==
  /\ libParser # 0 /\ pc = "failed"
  /\ errors' = Append(errors, err)
  /\ pc' = "done"
  /\ UNCHANGED <<scanVars, parsers, libDefs, added, libParser, setterMap, slices,
                 bound, walkAt, wshrcVars>>

\* if err != nil { result.Errors = append(result.Errors, err); return result }
ParseFailed ==
  /\ libParser # 0 /\ pc = "failed"
  /\ errors' = Append(errors, err)
  /\ pc' = "returned"
  /\ UNCHANGED <<scanVars, parsers, libDefs, added, libParser, setterMap, slices,
                 bound, walkAt, wshrcVars>>

\* applySetters begins: the setter map of the parser's own setters.
BuildSetterMap ==
  /\ libParser # 0 /\ pc = "done"
  /\ setterMap' = SetterMap(parsers[libParser].setters, Empty, 0)
  /\ walkAt' = 1
  /\ pc' = "apply"
  /\ UNCHANGED <<scanVars, parsers, libDefs, added, libParser, slices, bound, errors,
                 wshrcVars>>

\* Walk calls the callback with the next node.
WalkStep ==
  /\ pc = "apply" /\ walkAt <= Len(ResultWalk(heap, result))
  /\ LET fv == heap[ResultWalk(heap, result)[walkAt]]
         st == ApplySetter(parsers[libParser], defs, fv, ApplyState)
     IN /\ setterMap' = st.setterMap
        /\ slices' = st.slices
        /\ bound' = st.bound
  /\ walkAt' = walkAt + 1
  /\ UNCHANGED <<scanVars, pc, parsers, libDefs, added, libParser, errors, wshrcVars>>

\* Walk is over: return result (walkErr is nil: no setter of these types
\* fails).
ApplyDone ==
  /\ pc = "apply" /\ walkAt > Len(ResultWalk(heap, result))
  /\ pc' = "returned"
  /\ UNCHANGED <<scanVars, parsers, libDefs, added, applyVars, wshrcVars>>

NextApply == Next \/ ParseFailed \/ BuildSetterMap \/ WalkStep \/ ApplyDone

SpecApply == InitApply /\ [][NextApply]_vars

\* The nodes that are occurrences of the slice context key, the k-th of
\* them in token order, and the nodes of child field f that follow the k-th
\* occurrence and come before the next one.
Occurrence(key) == {n \in Nodes : key \in NodeNames(n)}

KthOccurrence(key, k) ==
  CHOOSE n \in Occurrence(key) :
     Cardinality({m \in Occurrence(key) : Before(origin[m], origin[n])}) = k - 1

FieldNodes(key, k, f) ==
  {m \in Nodes :
     /\ heap[m].Definition = f
     /\ Before(origin[KthOccurrence(key, k)], origin[m])
     /\ k < Cardinality(Occurrence(key))
          => Before(origin[m], origin[KthOccurrence(key, k + 1)])}

\* What the setter st has stored after the flags of the nodes ms, in token
\* order: the zero value when there are none.
LastStored(st, ms) ==
  IF ms = {} THEN Zero(st)
  ELSE LET m == CHOOSE m1 \in ms : \A m2 \in ms : m2 = m1 \/ Before(origin[m2], origin[m1])
       IN Stored(st, IF defs[heap[m].Definition].Switch THEN True ELSE heap[m].Value)

IdleWarg ==
  /\ builder = "none"
  /\ defs = <<>>
  /\ rootDefs = <<>>
  /\ args = <<>>
  /\ rootContext = 0
  /\ ctxs = <<>>
  /\ contextStack = <<>>
  /\ parentStack = <<>>
  /\ heap = <<>>
  /\ result = <<>>
  /\ i = 0
  /\ j = 0
  /\ pc = "idle"
  /\ err = NoError
  /\ ret = Pending
  /\ scanned = {}
  /\ valued = {}
  /\ origin = <<>>
  /\ calls = 0
  /\ prev = "none"
  /\ parsers = <<>>
  /\ libDefs = <<>>
  /\ added = <<>>
  /\ IdleApply

\* map[string]string over a few keys and values; a nil map is not a map
\* with no keys.
Keys == {<<"A">>, <<"B">>}

NilMap == [isNil |-> TRUE, vars |-> <<>>]

Env(m) == [isNil |-> FALSE, vars |-> m]

\* The error values: nil, and the errors an executor fails with.
Nil == [kind |-> "nil"]

ExecError(e) == [kind |-> e]

ExecErrors == {ExecError("exit 1"), ExecError("exit 2")}

\* What a ScriptExecutor can return: (map[string]string, error), whatever
\* the executor is.
SomeEnvs == {NilMap, Env(<<>>), Env(<<"A">> :> <<"1">>), Env(<<"A">> :> <<"2">>)}

ExecResults == [env : SomeEnvs, err : {Nil} \cup ExecErrors]

Return(env, e) == [env |-> env, err |-> e]

\* ---------------------------------------------------------------- WithRetry
\* fmt.Errorf("script failed after %d attempts: %w", maxRetries+1, lastErr)
FailedAfter(n, e) == [kind |-> "script failed after", attempts |-> n, wraps |-> e]

\* for attempt := 0; attempt <= maxRetries; attempt++
RetryLoopStrict(a, m) == a < m

RetryLoop(a, m) == a <= m

\* if attempt < maxRetries { time.Sleep(delay) }
RetrySleeps(a, m) == a < m

InitRetry ==
  /\ IdleWarg
  /\ IdleWshrc("retry")
  /\ maxRetries \in 0..MaxMaxRetries
  /\ attempt = 0
  /\ lastErr = Nil
  /\ retryNext = <<>>
  /\ slept = 0
  /\ retryPc = "loop"
  /\ retryRet = Return(NilMap, Nil)

\* One pass of the loop body up to the sleep: next is called and returns r.
RetryAttempt ==
  /\ retryPc = "loop" /\ RetryLoop(attempt, maxRetries)
  /\ \E r \in ExecResults :
       /\ retryNext' = Append(retryNext, r)
       /\ IF r.err = Nil
          THEN /\ retryRet' = Return(r.env, Nil)
               /\ retryPc' = "returned"
               /\ UNCHANGED <<attempt, lastErr>>
          ELSE /\ lastErr' = r.err
               /\ IF RetrySleeps(attempt, maxRetries)
                  THEN retryPc' = "sleep" /\ attempt' = attempt
                  ELSE retryPc' = "loop" /\ attempt' = attempt + 1
               /\ UNCHANGED retryRet
  /\ UNCHANGED <<maxRetries, slept, besideRetry>>

\* time.Sleep(delay) returns; attempt++
RetrySleep ==
  /\ retryPc = "sleep"
  /\ slept' = slept + 1
  /\ attempt' = attempt + 1
  /\ retryPc' = "loop"
  /\ UNCHANGED <<maxRetries, lastErr, retryNext, retryRet, besideRetry>>

\* The loop is over: return nil, fmt.Errorf(...)
RetryFailed ==
  /\ retryPc = "loop" /\ ~RetryLoop(attempt, maxRetries)
  /\ retryRet' = Return(NilMap, FailedAfter(maxRetries + 1, lastErr))
  /\ retryPc' = "returned"
  /\ UNCHANGED <<maxRetries, attempt, lastErr, retryNext, slept, besideRetry>>

NextRetry == RetryAttempt \/ RetrySleep \/ RetryFailed

SpecRetry == InitRetry /\ [][NextRetry]_vars

\* The calls of next that succeeded.
Succeeded(rs) == {k \in 1..Len(rs) : rs[k].err = Nil}

\* C22: the executor made by WithRetry(maxRetries, delay), maxRetries >= 0,
\* calls the inner executor at most maxRetries+1 times; it returns the
\* environment of the first successful call and makes no call after it;
\* when every call fails it has made maxRetries+1 calls and returns an
\* error reporting maxRetries+1 attempts that wraps the error of the last
\* call; it sleeps once between two calls and not after the last one.
C22_RetryBounded ==
  /\ [](Len(retryNext) <= maxRetries + 1)
  /\ [](\A k \in Succeeded(retryNext) : k = Len(retryNext))
  /\ []((retryPc = "sleep") => (slept = Len(retryNext) - 1 /\ Len(retryNext) <= maxRetries))
  /\ [](retryPc = "returned" =>
          /\ slept = Len(retryNext) - 1
          /\ IF Succeeded(retryNext) # {}
             THEN retryRet = Return(retryNext[Len(retryNext)].env, Nil)
             ELSE /\ Len(retryNext) = maxRetries + 1
                  /\ retryRet = Return(NilMap,
                                       FailedAfter(maxRetries + 1,
                                                   retryNext[maxRetries + 1].err)))
  /\ [][retryPc = "returned" => retryNext' = retryNext]_vars

\* Every attempt of WithRetry(2, delay) failed, with different errors.
C22_Witness ==
  /\ retryPc = "returned" /\ maxRetries = 2
  /\ Succeeded(retryNext) = {}
  /\ retryNext[1].err # retryNext[3].err
  /\ slept = 2

\* --------------------------------------------------------------- WithCaching
ScriptPaths == {"a.sh", "b.sh"}

\* next was not called.
NotCalled == [env |-> NilMap, err |-> [kind |-> "not called"]]

\* if err != nil { return nil, err }; cache[scriptPath] = env
CacheAfterAlways(c, scriptPath, r) == (scriptPath :> r.env) @@ c

CacheAfter(c, scriptPath, r) ==
  IF r.err # Nil THEN c ELSE (scriptPath :> r.env) @@ c

\* cache := make(map[string]map[string]string)
InitCaching ==
  /\ IdleWarg
  /\ IdleWshrc("cache")
  /\ cache = <<>>
  /\ cacheCalls = <<>>

\* if cached, ok := cache[scriptPath]; ok { return cached, nil }
CachedHit ==
  /\ Len(cacheCalls) < MaxCachedCalls
  /\ \E scriptPath \in ScriptPaths :
       /\ scriptPath \in DOMAIN cache
       /\ cacheCalls' = Append(cacheCalls,
                               [path |-> scriptPath, next |-> NotCalled,
                                ret |-> Return(cache[scriptPath], Nil)])
  /\ UNCHANGED <<cache, besideCache>>

\* The path is not in the cache: next is called and returns r.
CachedMiss ==
  /\ Len(cacheCalls) < MaxCachedCalls
  /\ \E scriptPath \in ScriptPaths : \E r \in ExecResults :
       /\ scriptPath \notin DOMAIN cache
       /\ cache' = CacheAfter(cache, scriptPath, r)
       /\ cacheCalls' = Append(cacheCalls,
                               [path |-> scriptPath, next |-> r,
                                ret |-> IF r.err # Nil THEN Return(NilMap, r.err)
                                        ELSE Return(r.env, Nil)])
  /\ UNCHANGED besideCache

NextCaching == CachedHit \/ CachedMiss

SpecCaching == InitCaching /\ [][NextCaching]_vars

\* The calls before the k-th, for the same path, in which next succeeded.
SucceededBefore(k) ==
  {m \in 1..(k - 1) : /\ cacheCalls[m].path = cacheCalls[k].path
                      /\ cacheCalls[m].next.err = Nil}

\* C23: once the inner executor has succeeded for a script path, every
\* later call for that path returns the environment of that execution
\* without calling the inner executor; a call for a path for which it has
\* not succeeded yet calls it, also after failures, and returns its result.
C23_CachedAfterSuccess ==
  \A k \in 1..Len(cacheCalls) :
    IF SucceededBefore(k) # {}
    THEN /\ cacheCalls[k].next = NotCalled
         /\ \A m \in SucceededBefore(k) :
              cacheCalls[k].ret = Return(cacheCalls[m].next.env, Nil)
    ELSE /\ cacheCalls[k].next \in ExecResults
         /\ cacheCalls[k].ret
              = IF cacheCalls[k].next.err = Nil
                THEN Return(cacheCalls[k].next.env, Nil)
                ELSE Return(NilMap, cacheCalls[k].next.err)

\* A path failed, then succeeded, then was served from the cache.
C23_Witness ==
  /\ Len(cacheCalls) = 3
  /\ cacheCalls[1].path = cacheCalls[2].path /\ cacheCalls[2].path = cacheCalls[3].path
  /\ cacheCalls[1].next.err \in ExecErrors
  /\ cacheCalls[2].next.err = Nil /\ cacheCalls[2].next.env # NilMap
  /\ cacheCalls[3].next = NotCalled

\* --------------------------------------------------------------- WithTimeout
\* make(chan struct{...}, 1)
ResultChanCap == 1

\* fmt.Errorf("script execution timed out after %v: %s", duration, scriptPath)
TimedOut(scriptPath) == [kind |-> "script execution timed out", path |-> scriptPath]

\* A send on the channel proceeds when the buffer has room or a receiver
\* waits.
SendProceedsUnbuffered(ch, receiving) == receiving

SendProceeds(ch, receiving) == Len(ch) < ResultChanCap \/ receiving

\* The call has made the context and the channel and started the
\* goroutine; the caller is at the select.
InitTimeout ==
  /\ IdleWarg
  /\ IdleWshrc("timeout")
  /\ timeoutPath \in ScriptPaths
  /\ ctxDone = FALSE
  /\ resultChan = <<>>
  /\ goPc = "next"
  /\ goResult = Return(NilMap, Nil)
  /\ callerPc = "select"
  /\ timeoutRet = Return(NilMap, Nil)
  /\ delivered = "no"

\* The deadline of the context passes.
DeadlinePasses ==
  /\ callerPc # "idle" /\ ~ctxDone
  /\ ctxDone' = TRUE
  /\ UNCHANGED <<timeoutPath, resultChan, goPc, goResult, callerPc, timeoutRet,
                 delivered, besideTimeout>>

\* env, err := next(zshPath, scriptPath) returns in the goroutine.
NextReturns ==
  /\ goPc = "next"
  /\ \E r \in ExecResults : goResult' = r
  /\ goPc' = "send"
  /\ UNCHANGED <<timeoutPath, ctxDone, resultChan, callerPc, timeoutRet, delivered,
                 besideTimeout>>

\* resultChan <- struct{...}{env, err}, and the goroutine ends.
Send ==
  /\ goPc = "send"
  /\ SendProceeds(resultChan, callerPc = "select")
  /\ resultChan' = Append(resultChan, goResult)
  /\ goPc' = "ended"
  /\ delivered' = IF ctxDone THEN "late" ELSE "in time"
  /\ UNCHANGED <<timeoutPath, ctxDone, goResult, callerPc, timeoutRet, besideTimeout>>

\* case <-ctx.Done(): return nil, fmt.Errorf(...)
SelectDone ==
  /\ callerPc = "select" /\ ctxDone
  /\ timeoutRet' = Return(NilMap, TimedOut(timeoutPath))
  /\ callerPc' = "returned"
  /\ UNCHANGED <<timeoutPath, ctxDone, resultChan, goPc, goResult, delivered,
                 besideTimeout>>

\* case result := <-resultChan: return result.env, result.err
SelectResult ==
  /\ callerPc = "select" /\ resultChan # <<>>
  /\ timeoutRet' = Return(Head(resultChan).env, Head(resultChan).err)
  /\ resultChan' = Tail(resultChan)
  /\ callerPc' = "returned"
  /\ UNCHANGED <<timeoutPath, ctxDone, goPc, goResult, delivered, besideTimeout>>

NextTimeout == DeadlinePasses \/ NextReturns \/ Send \/ SelectDone \/ SelectResult

SpecTimeout == InitTimeout /\ [][NextTimeout]_vars

\* C24 as stated: the call returns the inner executor's result when the
\* result was delivered before the deadline, and the timed-out error
\* otherwise.
C24_ResultIffBeforeDeadline ==
  callerPc = "returned" =>
    timeoutRet = IF delivered = "in time" THEN goResult
                 ELSE Return(NilMap, TimedOut(timeoutPath))

\* C24, amended: a call returns once, either the result the goroutine
\* delivered or the timed-out error, the latter only after the deadline;
\* when only one of the two is ready at the select that one is returned;
\* and the goroutine is never blocked at its send, also after the caller
\* returned.
C24_OneOutcomeNoBlockedSend ==
  /\ [](callerPc = "returned" =>
          \/ timeoutRet = Return(NilMap, TimedOut(timeoutPath)) /\ ctxDone
          \/ timeoutRet = goResult /\ goPc = "ended" /\ resultChan = <<>>)
  /\ [][callerPc = "returned" => (callerPc' = "returned" /\ timeoutRet' = timeoutRet)]_vars
  /\ [][(callerPc = "select" /\ callerPc' = "returned") =>
          /\ (resultChan = <<>>) => timeoutRet' = Return(NilMap, TimedOut(timeoutPath))
          /\ ~ctxDone => timeoutRet' = goResult]_vars
  /\ [](goPc = "send" => ENABLED Send)
  /\ [](Len(resultChan) <= ResultChanCap)

\* The timeout was reported and the goroutine delivered its result after
\* that and ended.
C24_Witness ==
  /\ callerPc = "returned"
  /\ timeoutRet = Return(NilMap, TimedOut(timeoutPath))
  /\ goPc = "ended" /\ delivered = "late"
  /\ resultChan = <<goResult>>

\* ------------------------------------------------------------ WithMiddleware
\* An executor is the base executor or a middleware around an executor.
Base == [mw |-> "base"]

\* middleware(next): the executor that enters mw and calls next.
Wrap(mw, next) == [mw |-> mw, next |-> next]

Middlewares == {"logging", "recovery", "timeout"}

MiddlewareLists == SeqsUpTo(Middlewares, MaxMiddleware)

\* The loader's executor before the option: the default one, or one an
\* earlier option wrapped.
CurrentExecutors == {Base, Wrap("retry", Base)}

\* w.ScriptExecutor = middleware[i](w.ScriptExecutor), i counted from 0.
WrappedForward(mws, executor, idx) == Wrap(mws[Len(mws) - idx], executor)

Wrapped(mws, executor, idx) == Wrap(mws[idx + 1], executor)

\* The option begins: i := len(middleware) - 1
InitChain ==
  /\ IdleWarg
  /\ IdleWshrc("chain")
  /\ scriptExecutor \in CurrentExecutors
  /\ baseExecutor = scriptExecutor
  /\ middleware \in MiddlewareLists
  /\ mwI = Len(middleware) - 1
  /\ chainPc = "wrap"
  /\ running = Base
  /\ entered = <<>>

\* One pass of the loop: i >= 0
WrapNext ==
  /\ chainPc = "wrap" /\ mwI >= 0
  /\ scriptExecutor' = Wrapped(middleware, scriptExecutor, mwI)
  /\ mwI' = mwI - 1
  /\ UNCHANGED <<baseExecutor, middleware, chainPc, running, entered, besideChain>>

\* The loop is over: return nil.  The loader then calls its executor.
WrapReturn ==
  /\ chainPc = "wrap" /\ mwI < 0
  /\ chainPc' = "execute"
  /\ running' = scriptExecutor
  /\ UNCHANGED <<scriptExecutor, baseExecutor, middleware, mwI, entered, besideChain>>

\* The execution enters the executor it has reached; a middleware calls
\* next, the base executor runs the script.
Enter ==
  /\ chainPc = "execute"
  /\ entered' = Append(entered, running.mw)
  /\ IF running = Base
     THEN chainPc' = "executed" /\ running' = running
     ELSE chainPc' = chainPc /\ running' = running.next
  /\ UNCHANGED <<scriptExecutor, baseExecutor, middleware, mwI, besideChain>>

NextChain == WrapNext \/ WrapReturn \/ Enter

SpecChain == InitChain /\ [][NextChain]_vars

\* m1(m2(...mn(executor)))
RECURSIVE Nested(_, _)
Nested(mws, executor) ==
  IF mws = <<>> THEN executor
  ELSE Wrap(Head(mws), Nested(Tail(mws), executor))

\* The middleware an execution of the executor enters, in order.
RECURSIVE Enters(_)
Enters(executor) ==
  IF executor = Base THEN <<"base">>
  ELSE <<executor.mw>> \o Enters(executor.next)

\* C25: WithMiddleware(m1, ..., mn) leaves the loader with the executor
\* m1(m2(...mn(e))), e being the executor it had; an execution enters m1,
\* ..., mn in the order listed, then what e enters, the base executor last.
C25_FirstListedOutermost ==
  /\ chainPc \in {"execute", "executed"} =>
       scriptExecutor = Nested(middleware, baseExecutor)
  /\ chainPc = "executed" =>
       /\ entered = middleware \o Enters(baseExecutor)
       /\ entered[Len(entered)] = "base"

\* Three middleware, not all the same, around an executor that was wrapped
\* before: the execution has gone through them and reached the base.
C25_Witness ==
  /\ chainPc = "executed"
  /\ Len(middleware) = 3 /\ middleware[1] # middleware[3]
  /\ baseExecutor # Base
  /\ Len(entered) = 5

\* ------------------------------------------- Environment.BuildExportScript
\* strings.ReplaceAll(value, "'", "'\"'\"'")
RECURSIVE ReplaceAllQuotes(_)
ReplaceAllQuotes(value) ==
  IF value = <<>> THEN <<>>
  ELSE (IF Head(value) = "'" THEN <<"'", "\"", "'", "\"", "'">> ELSE <<Head(value)>>)
       \o ReplaceAllQuotes(Tail(value))

\* fmt.Sprintf("export %s='%s'\n", key, escapedValue)
buildExportLine(key, value) ==
  <<"e", "x", "p", "o", "r", "t", " ">> \o key \o <<"=", "'">>
    \o ReplaceAllQuotes(value) \o <<"'", "\n">>

\* currentVal, exists := current[key]; !exists || currentVal != value
ExportedAlways(current, key, value) == TRUE

Exported(current, key, value) == key \notin DOMAIN current \/ current[key] # value

\* The orders in which range can go through the keys ks of a map.
RangeOrders(ks) ==
  {order \in [1..Cardinality(ks) -> ks] :
     \A a, b \in 1..Cardinality(ks) : a # b => order[a] # order[b]}

\* The script built when range goes through new in the given order.
RECURSIVE BuildExportScript(_, _, _)
BuildExportScript(current, new, order) ==
  IF order = <<>> THEN <<>>
  ELSE (IF Exported(current, Head(order), new[Head(order)])
        THEN buildExportLine(Head(order), new[Head(order)])
        ELSE <<>>)
       \o BuildExportScript(current, new, Tail(order))

\* ------------------------------------------------------ execution strategies
\* os.ReadDir returns the entries sorted by file name.
AllScripts == <<"a.sh", "b.sh", "c.sh", "d.sh">>

ScriptLists == {SubSeq(AllScripts, 1, n) : n \in 0..MaxScripts}

\* What the executor returns to a strategy.
StrategyResults ==
  {Return(e, Nil) : e \in {NilMap, Env(<<"A">> :> <<"1">>),
                           Env(<<"A">> :> <<"2">> @@ <<"B">> :> <<"1">>)}}
    \cup {Return(NilMap, e) : e \in ExecErrors}

CurrentEnvs == {<<>>, <<"A">> :> <<"1">>}

\* fmt.Errorf("error executing %s: %w", scriptPath, err)
ErrorExecuting(scriptPath, e) ==
  [kind |-> "error executing", path |-> scriptPath, wraps |-> e]

\* for k, v := range env { merged[k] = v }
MergeKeepingFirst(m, env) ==
  [k \in DOMAIN m \cup DOMAIN env.vars |-> IF k \in DOMAIN m THEN m[k] ELSE env.vars[k]]

MergeInto(m, env) ==
  [k \in DOMAIN m \cup DOMAIN env.vars |->
     IF k \in DOMAIN env.vars THEN env.vars[k] ELSE m[k]]

\* Environment.Merge: for env := range envChan { ... }
RECURSIVE Merge(_)
Merge(envs) ==
  IF envs = <<>> THEN <<>>
  ELSE MergeInto(Merge(SubSeq(envs, 1, Len(envs) - 1)), envs[Len(envs)])

\* A send on a channel with a buffer of cap values and no receiver.
UnbufferedSend(ch, cap) == Len(ch) < 0

BufferedSend(ch, cap) == Len(ch) < cap

\* if len(errChan) > 0 { return nil, <-errChan }
\* return NewEnvironment().Merge(envChan), nil
ParallelReturnIgnoringErrors(envs, errs) == Return(Env(Merge(envs)), Nil)

ParallelReturn(envs, errs) ==
  IF Len(errs) > 0 THEN Return(NilMap, Head(errs))
  ELSE Return(Env(Merge(envs)), Nil)

NoWorker == [pc |-> "none", res |-> Return(NilMap, Nil)]

\* Load has found the directory; loadDirectory has listed the scripts.
InitLoad ==
  /\ IdleWarg
  /\ IdleWshrc("load")
  /\ strategy \in {"parallel", "sequential"}
  /\ scripts \in ScriptLists
  /\ currentEnv \in CurrentEnvs
  /\ wg = 0
  /\ envChan = <<>>
  /\ errChan = <<>>
  /\ started = 0
  /\ workers = [k \in 1..Len(scripts) |-> NoWorker]
  /\ merged = <<>>
  /\ loadPc = "loadDirectory"
  /\ strategyRet = Return(NilMap, Nil)
  /\ loadRet = [script |-> <<>>, err |-> Nil]
  /\ log = <<>>

\* if len(scripts) == 0 { return "", nil }
NoScripts ==
  /\ loadPc = "loadDirectory" /\ Len(scripts) = 0
  /\ loadRet' = [script |-> <<>>, err |-> Nil]
  /\ loadPc' = "loaded"
  /\ UNCHANGED <<strategy, scripts, currentEnv, wg, envChan, errChan, started, workers,
                 merged, strategyRet, log, besideLoad>>

\* currentEnv := w.Env.GetCurrent(); the strategy is called.
CallStrategy ==
  /\ loadPc = "loadDirectory" /\ Len(scripts) # 0
  /\ loadPc' = strategy
  /\ UNCHANGED <<strategy, scripts, currentEnv, wg, envChan, errChan, started, workers,
                 merged, strategyRet, loadRet, log, besideLoad>>

\* ParallelExecutionStrategy, one pass of the loop: wg.Add(1); go func...
Spawn ==
  /\ loadPc = "parallel" /\ started < Len(scripts)
  /\ wg' = wg + 1
  /\ started' = started + 1
  /\ workers' = [workers EXCEPT ![started + 1].pc = "ready"]
  /\ UNCHANGED <<strategy, scripts, currentEnv, envChan, errChan, merged, loadPc,
                 strategyRet, loadRet, log, besideLoad>>

\* The goroutine of script k calls executor(zshPath, scriptPath).
Invoke(k) ==
  /\ workers[k].pc = "ready"
  /\ workers' = [workers EXCEPT ![k].pc = "running"]
  /\ log' = Append(log, [ev |-> "call", k |-> k, res |-> Return(NilMap, Nil)])
  /\ UNCHANGED <<strategy, scripts, currentEnv, wg, envChan, errChan, started, merged,
                 loadPc, strategyRet, loadRet, besideLoad>>

\* The executor returns r in the goroutine of script k.
ExecutorReturns(k) ==
  /\ workers[k].pc = "running"
  /\ \E r \in StrategyResults :
       /\ workers' = [workers EXCEPT ![k] = [pc |-> "send", res |-> r]]
       /\ log' = Append(log, [ev |-> "return", k |-> k, res |-> r])
  /\ UNCHANGED <<strategy, scripts, currentEnv, wg, envChan, errChan, started, merged,
                 loadPc, strategyRet, loadRet, besideLoad>>

\* errChan <- fmt.Errorf(...), or envChan <- env
SendResult(k) ==
  /\ workers[k].pc = "send"
  /\ IF workers[k].res.err # Nil
     THEN /\ BufferedSend(errChan, Len(scripts))
          /\ errChan' = Append(errChan, ErrorExecuting(scripts[k], workers[k].res.err))
          /\ UNCHANGED envChan
     ELSE /\ BufferedSend(envChan, Len(scripts))
          /\ envChan' = Append(envChan, workers[k].res.env)
          /\ UNCHANGED errChan
  /\ workers' = [workers EXCEPT ![k].pc = "sent"]
  /\ UNCHANGED <<strategy, scripts, currentEnv, wg, started, merged, loadPc,
                 strategyRet, loadRet, log, besideLoad>>

\* defer wg.Done()
Done(k) ==
  /\ workers[k].pc = "sent"
  /\ workers' = [workers EXCEPT ![k].pc = "done"]
  /\ wg' = wg - 1
  /\ UNCHANGED <<strategy, scripts, currentEnv, envChan, errChan, started, merged,
                 loadPc, strategyRet, loadRet, log, besideLoad>>

Worker == \E k \in 1..Len(scripts) :
            Invoke(k) \/ ExecutorReturns(k) \/ SendResult(k) \/ Done(k)

\* wg.Wait() returns; the channels are closed and the result is returned.
WaitReturns ==
  /\ loadPc = "parallel" /\ started = Len(scripts)
  /\ wg = 0
  /\ strategyRet' = ParallelReturn(envChan, errChan)
  /\ loadPc' = "returned"
  /\ UNCHANGED <<strategy, scripts, currentEnv, wg, envChan, errChan, started, workers,
                 merged, loadRet, log, besideLoad>>

\* SequentialExecutionStrategy: env, err := executor(zshPath, script) is
\* called for the next script.
SequentialCall ==
  /\ loadPc = "sequential" /\ started < Len(scripts)
  /\ workers[started + 1].pc = "none"
  /\ workers' = [workers EXCEPT ![started + 1].pc = "running"]
  /\ log' = Append(log, [ev |-> "call", k |-> started + 1, res |-> Return(NilMap, Nil)])
  /\ UNCHANGED <<strategy, scripts, currentEnv, wg, envChan, errChan, started, merged,
                 loadPc, strategyRet, loadRet, besideLoad>>

\* It returns r: the error is returned, or the environment merged.
SequentialReturn ==
  /\ loadPc = "sequential" /\ started < Len(scripts)
  /\ workers[started + 1].pc = "running"
  /\ \E r \in StrategyResults :
       /\ workers' = [workers EXCEPT ![started + 1] = [pc |-> "done", res |-> r]]
       /\ log' = Append(log, [ev |-> "return", k |-> started + 1, res |-> r])
       /\ IF r.err # Nil
          THEN /\ strategyRet' = Return(NilMap, ErrorExecuting(scripts[started + 1], r.err))
               /\ loadPc' = "returned"
               /\ UNCHANGED <<merged, started>>
          ELSE /\ merged' = MergeInto(merged, r.env)
               /\ started' = started + 1
               /\ UNCHANGED <<strategyRet, loadPc>>
  /\ UNCHANGED <<strategy, scripts, currentEnv, wg, envChan, errChan, loadRet,
                 besideLoad>>

\* The loop is over: return merged, nil
SequentialDone ==
  /\ loadPc = "sequential" /\ started = Len(scripts)
  /\ strategyRet' = Return(Env(merged), Nil)
  /\ loadPc' = "returned"
  /\ UNCHANGED <<strategy, scripts, currentEnv, wg, envChan, errChan, started, workers,
                 merged, loadRet, log, besideLoad>>

\* if err != nil { return "", err }
\* return w.Env.BuildExportScript(currentEnv, mergedEnv), nil
LoadReturns ==
  /\ loadPc = "returned"
  /\ IF strategyRet.err # Nil
     THEN loadRet' = [script |-> <<>>, err |-> strategyRet.err]
     ELSE \E order \in RangeOrders(DOMAIN strategyRet.env.vars) :
            loadRet' = [script |-> BuildExportScript(currentEnv, strategyRet.env.vars,
                                                     order),
                        err |-> Nil]
  /\ loadPc' = "loaded"
  /\ UNCHANGED <<strategy, scripts, currentEnv, wg, envChan, errChan, started, workers,
                 merged, strategyRet, log, besideLoad>>

NextLoad ==
  \/ NoScripts \/ CallStrategy
  \/ Spawn \/ Worker \/ WaitReturns
  \/ SequentialCall \/ SequentialReturn \/ SequentialDone
  \/ LoadReturns

SpecLoad == InitLoad /\ [][NextLoad]_vars

\* The calls of the executor for script k, and its returns.
Calls(k) == {n \in 1..Len(log) : log[n].ev = "call" /\ log[n].k = k}

Returns(k) == {n \in 1..Len(log) : log[n].ev = "return" /\ log[n].k = k}

\* The strategy was called and has returned.
StrategyReturned == loadPc \in {"returned", "loaded"} /\ Len(scripts) # 0

\* m is the merge of the environments the executor returned, taken in
\* some order.
MergeOfAll(m) ==
  \E order \in RangeOrders(1..Len(scripts)) :
    m = Merge([n \in 1..Len(scripts) |-> workers[order[n]].res.env])

\* C26: ParallelExecutionStrategy calls the executor exactly once for every
\* script and returns only after all those calls have returned; no
\* goroutine is ever blocked at its send, and the strategy always has a
\* step to take until it returns; when every call succeeded it returns the
\* merge of all their environments.
C26_ParallelRunsAllOnce ==
  /\ [](\A k \in 1..Len(scripts) : Cardinality(Calls(k)) <= 1)
  /\ []((strategy = "parallel" /\ StrategyReturned) =>
          \A k \in 1..Len(scripts) :
             /\ Cardinality(Calls(k)) = 1
             /\ Cardinality(Returns(k)) = 1
             /\ workers[k].pc = "done")
  /\ [](\A k \in 1..Len(scripts) : workers[k].pc = "send" => ENABLED SendResult(k))
  /\ [](loadPc = "parallel" => ENABLED (Spawn \/ Worker \/ WaitReturns))
  /\ []((strategy = "parallel" /\ StrategyReturned
          /\ \A k \in 1..Len(scripts) : workers[k].res.err = Nil) =>
            /\ strategyRet.err = Nil
            /\ ~strategyRet.env.isNil
            /\ MergeOfAll(strategyRet.env.vars))

\* Both scripts succeeded in parallel and set A differently; the value of
\* the first script in the list is the one returned.
C26_Witness ==
  /\ strategy = "parallel" /\ loadPc = "loaded"
  /\ Len(scripts) = 2
  /\ workers[1].res.err = Nil /\ workers[2].res.err = Nil
  /\ ~workers[1].res.env.isNil /\ ~workers[2].res.env.isNil
  /\ workers[1].res.env.vars[<<"A">>] # workers[2].res.env.vars[<<"A">>]
  /\ strategyRet.env.vars[<<"A">>] = workers[1].res.env.vars[<<"A">>]

\* The first return of the executor with an error, in the order things
\* happened (0 when there is none).
FirstFailure ==
  IF \E n \in 1..Len(log) : log[n].ev = "return" /\ log[n].res.err # Nil
  THEN CHOOSE n \in 1..Len(log) :
         /\ log[n].ev = "return" /\ log[n].res.err # Nil
         /\ \A m \in 1..(n - 1) : ~(log[m].ev = "return" /\ log[m].res.err # Nil)
  ELSE 0

\* C27: ParallelExecutionStrategy has first-error-wins cancellation: when a
\* script's executor fails, the error returned is that of the first script
\* that failed, and the executions outstanding at that moment are
\* cancelled: after the first failure no executor is called and none runs
\* to a successful end.
C27_FirstErrorWinsCancels ==
  (strategy = "parallel" /\ StrategyReturned /\ FirstFailure # 0) =>
    /\ strategyRet.err = ErrorExecuting(scripts[log[FirstFailure].k],
                                        log[FirstFailure].res.err)
    /\ \A n \in (FirstFailure + 1)..Len(log) :
         /\ log[n].ev # "call"
         /\ log[n].ev = "return" => log[n].res.err # Nil

\* The returns of the executor with an error.
Failures == {n \in 1..Len(log) : log[n].ev = "return" /\ log[n].res.err # Nil}

\* C28: when the executor failed for at least one script of the directory,
\* the strategy returns a nil environment and an error that names a
\* script whose executor failed and wraps its error, and Load returns that
\* error with an empty script.
C28_FailureGivesNoScript ==
  (StrategyReturned /\ Failures # {}) =>
    /\ strategyRet.env = NilMap
    /\ \E n \in Failures :
         strategyRet.err = ErrorExecuting(scripts[log[n].k], log[n].res.err)
    /\ loadPc = "loaded" => loadRet = [script |-> <<>>, err |-> strategyRet.err]

\* Run in parallel, one script failed and the other one set a variable
\* the current environment does not have; Load returned the error.
C28_Witness ==
  /\ strategy = "parallel" /\ loadPc = "loaded"
  /\ Cardinality(Failures) = 1
  /\ \E k \in 1..Len(scripts) :
       /\ workers[k].res.err = Nil /\ ~workers[k].res.env.isNil
       /\ \E key \in DOMAIN workers[k].res.env.vars :
            Exported(currentEnv, key, workers[k].res.env.vars[key])
  /\ loadRet.script = <<>> /\ loadRet.err # Nil

\* The scripts that set key, among those whose executor succeeded.
Setting(key) ==
  {k \in 1..Len(scripts) :
     /\ workers[k].pc = "done" /\ workers[k].res.err = Nil
     /\ key \in DOMAIN workers[k].res.env.vars}

\* The last of a non-empty set of script indices.
Latest(ks) == CHOOSE k \in ks : \A m \in ks : m <= k

\* C29: SequentialExecutionStrategy calls the executor on the scripts one
\* at a time in list order: the n-th call is for the n-th script and
\* begins after the call before it returned; a failure is the last thing
\* that happens, no later script is executed and its error is returned;
\* on success the map returned has, for every key some script set, the
\* value of the latest script in list order that set it.
C29_SequentialInOrder ==
  strategy = "sequential" =>
    /\ \A n \in 1..Len(log) :
         /\ log[n].k = (n + 1) \div 2
         /\ log[n].ev = IF n % 2 = 1 THEN "call" ELSE "return"
    /\ \A n \in Failures : n = Len(log)
    /\ (StrategyReturned /\ Failures # {}) =>
         strategyRet = Return(NilMap, ErrorExecuting(scripts[log[Len(log)].k],
                                                     log[Len(log)].res.err))
    /\ (StrategyReturned /\ Failures = {}) =>
         /\ Len(log) = 2 * Len(scripts)
         /\ strategyRet.err = Nil /\ ~strategyRet.env.isNil
         /\ DOMAIN strategyRet.env.vars = {key \in Keys : Setting(key) # {}}
         /\ \A key \in DOMAIN strategyRet.env.vars :
              strategyRet.env.vars[key]
                = workers[Latest(Setting(key))].res.env.vars[key]

\* Two scripts run in sequence set A differently, and the second one's
\* value is returned.
C29_Witness ==
  /\ strategy = "sequential" /\ loadPc = "loaded"
  /\ Len(scripts) = 2 /\ Failures = {}
  /\ Setting(<<"A">>) = {1, 2}
  /\ workers[1].res.env.vars[<<"A">>] # workers[2].res.env.vars[<<"A">>]
  /\ strategyRet.env.vars[<<"A">>] = workers[2].res.env.vars[<<"A">>]

\* --------------------------------------- Environment.BuildExportScript alone
ExportKeys == Keys \cup {<<"C">>}

\* Values with and without a single quote.
ExportValues == {<<"1">>, <<"2">>, <<"a", "'", "b">>}

\* The maps given to BuildExportScript; a nil map ranges like an empty one.
ExportMaps == UNION {[ks -> ExportValues] : ks \in SUBSET ExportKeys}

InitExport ==
  /\ IdleWarg
  /\ IdleWshrc("export")
  /\ exportCurrent \in ExportMaps
  /\ exportNew \in ExportMaps
  /\ exportPc = "call"
  /\ exportScript = <<>>

\* The whole call: range goes through new in some order.
Export ==
  /\ exportPc = "call"
  /\ \E order \in RangeOrders(DOMAIN exportNew) :
       exportScript' = BuildExportScript(exportCurrent, exportNew, order)
  /\ exportPc' = "returned"
  /\ UNCHANGED <<exportCurrent, exportNew, besideExport>>

NextExport == Export

SpecExport == InitExport /\ [][NextExport]_vars

\* The keys of new that are absent from current or differ there.
NewOrChanged ==
  {key \in DOMAIN exportNew : key \notin DOMAIN exportCurrent \/ exportCurrent[key] # exportNew[key]}

\* The lines for the keys of order, one after the other.
RECURSIVE Lines(_)
Lines(order) ==
  IF order = <<>> THEN <<>>
  ELSE <<"e", "x", "p", "o", "r", "t", " ">> \o Head(order) \o <<"=", "'">>
         \o ReplaceAllQuotes(exportNew[Head(order)]) \o <<"'", "\n">>
         \o Lines(Tail(order))

\* C30: BuildExportScript(current, new) returns exactly one export line
\* for every key of new that is absent from current or has another value
\* there, in some order, and nothing else: no line for an unchanged key
\* and none for a key that only current has.
C30_ExportsNewOrChanged ==
  exportPc = "returned" =>
    \E order \in RangeOrders(NewOrChanged) : exportScript = Lines(order)

\* A changed key whose value has a quote, an unchanged key and a key only
\* current has: one line is returned.
C30_Witness ==
  /\ exportPc = "returned"
  /\ DOMAIN exportNew = {<<"A">>, <<"B">>} /\ DOMAIN exportCurrent = ExportKeys
  /\ exportNew[<<"A">>] = exportCurrent[<<"A">>]
  /\ exportNew[<<"B">>] = <<"a", "'", "b">> /\ exportCurrent[<<"B">>] = <<"1">>
  /\ exportScript = <<"e", "x", "p", "o", "r", "t", " ", "B", "=", "'",
                      "a", "'", "\"", "'", "\"", "'", "b", "'", "\n">>

\* =========================================================================
\* Claims C31 to C38
\* =========================================================================

\* The contexts Lookup goes through from context c, nearest first.
RECURSIVE LookupChain(_, _)
LookupChain(cs, c) ==
  IF c = 0 THEN <<>> ELSE <<c>> \o LookupChain(cs, cs[c].Parent)

\* A sequence from its last element to its first.
Reversed(s) == [k \in 1..Len(s) |-> s[Len(s) + 1 - k]]

\* C31: throughout a scan the context stack and the parent stack have the
\* same length, at least 1; the bottom of the parent stack is nil and the
\* bottom context is the root; every level above the bottom holds the
\* FlagValue whose match pushed it, the context made of that node's
\* children, and the context below as its Parent; so the chain Lookup
\* walks from the top context is the stack from top to bottom.  Each push
\* puts the node just created on the parent stack.
C31_StacksInStep ==
  /\ [](/\ Len(contextStack) = Len(parentStack)
        /\ Len(contextStack) >= 1
        /\ parentStack[1] = 0
        /\ contextStack[1] = rootContext
        /\ ctxs[rootContext].Parent = 0
        /\ \A k \in 2..Len(contextStack) :
             /\ parentStack[k] \in Nodes
             /\ ctxs[contextStack[k]]
                  = NewContext(defs, defs[heap[parentStack[k]].Definition].Children,
                               contextStack[k - 1])
        /\ LookupChain(ctxs, contextStack[Len(contextStack)]) = Reversed(contextStack))
  /\ [][Len(contextStack') > Len(contextStack) =>
          /\ Len(contextStack') = Len(contextStack) + 1
          /\ Len(heap') = Len(heap) + 1
          /\ parentStack' = Append(parentStack, Len(heap'))
          /\ SubSeq(contextStack', 1, Len(contextStack)) = contextStack]_vars

\* Two contexts are open, one inside the other.
C31_Witness ==
  /\ Len(contextStack) = 3
  /\ parentStack[3] \in Range(heap[parentStack[2]].Children)

\* The letter the loop over a combined token is at (the first one, at
\* position 2 of the token, outside the loop).
LetterAt == IF j = 0 THEN 2 ELSE j

\* More than the length of any token.
LongestToken == CHOOSE n \in 0..16 : /\ \A t \in Tokens \cup ApplyTokens : Len(t) < n
                                     /\ \E t \in Tokens \cup ApplyTokens : Len(t) = n - 1

\* What is left to scan: the tokens from i on, and in the token at i the
\* letters from LetterAt on.
Remaining == (Len(args) + 1 - i) * LongestToken - LetterAt

\* C32: Parse terminates on every finite argument list: every step of
\* the scan either ends it or leaves less to scan; an iteration of the loop
\* over the tokens advances the token index by at least one; the loop over
\* the letters of a combined token stays at its token, goes to a later
\* letter each time and never past the token's length; and a token
\* consumed as a value is never scanned as a flag.
C32_ScanTerminates ==
  /\ [](Remaining >= 0 - LongestToken)
  /\ [][pc = "scan" => (pc' # "scan" \/ Remaining' < Remaining)]_vars
  /\ [][(pc = "scan" /\ pc' = "scan") =>
          IF j' = 0 THEN i' >= i + 1
          ELSE i' = i /\ j' > LetterAt /\ j' <= Len(args[i])]_vars
  /\ [](j # 0 => (i <= Len(args) /\ j <= Len(args[i])))
  /\ [](scanned \cap valued = {})
  /\ [](pc \in {"done", "failed"} => ~ENABLED Next)

\* A scan that ended after going through the letters of a combined token
\* and consuming a value.
C32_Witness ==
  /\ pc = "done" /\ Len(args) = 3
  /\ valued # {}
  /\ \E n \in Nodes : origin[n][2] >= 3

\* The variables bound with Flag and the slices bound with Context hold
\* what they held when Parse was called.
NothingSet ==
  /\ \A c \in 1..Len(parsers[libParser].setters) :
       bound[parsers[libParser].setters[c].ptr] = Zero(parsers[libParser].setters[c])
  /\ \A key \in DOMAIN slices : slices[key] = <<>>

\* C33: when the scan of lib.Parser.Parse fails with an unknown-flag or a
\* missing-value error, applySetters does not run: no step changes a bound
\* variable or a slice, also not for the flags matched before the failing
\* token, and ParseResult.Errors holds exactly that one error.
C33_FailureSetsNothing ==
  /\ []((libParser # 0 /\ ret.err # NoError) =>
          /\ ret.err.kind \in {"unknown flag", "requires a value"}
          /\ walkAt = 0 /\ setterMap = <<>>
          /\ NothingSet
          /\ pc = "returned" => errors = <<ret.err>>)
  /\ []((libParser # 0 /\ errors # <<>>) => (Len(errors) = 1 /\ errors[1] = ret.err))
  /\ [][(libParser # 0 /\ walkAt' = 0) => (bound' = bound /\ slices' = slices)]_vars

\* Parse failed at its last token after matching a context flag and a
\* child flag with a value.
C33_Witness ==
  /\ pc = "returned" /\ errors # <<>>
  /\ Len(heap) >= 2
  /\ \E n \in Nodes : heap[n].Children # <<>>
  /\ \E n \in Nodes : heap[n].Value # Empty

\* ---- C34: a name shared by a root flag and a child of a struct context ----

\* New().Flag(&n, {"n"}).Context(&cfg, {"C"}, func(p) { p.Flag(&cfg.n, {"n"}) }):
\* definition 1 is the child -n, 2 the root -n, 3 the context -C.
FlagThenContext ==
  LET r1 == ParserFlag(<<New>>, <<>>, 1, << <<"n">> >>, FALSE)
      r2 == ParserFlag(r1.parsers, r1.libDefs, 1, << <<"n">> >>, FALSE)
  IN ParserContext(r2.parsers, r2.libDefs, 3, << <<"C">> >>, 2, "struct")

\* New().Context(&cfg, {"C"}, func(p) { p.Flag(&cfg.n, {"n"}) }).Flag(&n, {"n"}):
\* definition 1 is the child -n, 2 the context -C, 3 the root -n.
ContextThenFlag ==
  LET r1 == ParserFlag(<<New>>, <<>>, 1, << <<"n">> >>, FALSE)
      r2 == ParserContext(r1.parsers, r1.libDefs, 1, << <<"C">> >>, 2, "struct")
  IN ParserFlag(r2.parsers, r2.libDefs, 3, << <<"n">> >>, FALSE)

StructFixtures == {FlagThenContext, ContextThenFlag}

StructTokens == {<<"-", "C">>, <<"-", "n">>, <<"x">>, <<"y">>, <<"-", "C", "n">>,
                 DashDash}

StructArgLists == SeqsUpTo(StructTokens, MaxApplyArgs)

InitApplyStruct == \E fx \in StructFixtures : InitApplyOn(fx, StructArgLists)

SpecApplyStruct == InitApplyStruct /\ [][NextApply]_vars

\* C34: when Parse has returned without error, every bound variable holds
\* what the last occurrence resolved to its own definition stored (its zero
\* value when there is none): an occurrence of -n resolved at the root sets
\* only the root variable, one resolved inside -C only the child's.
C34_SetsVariableOfResolvedLevel ==
  (pc = "returned" /\ errors = <<>>)
    => \A c \in 1..Len(parsers[libParser].setters) :
         LET st == parsers[libParser].setters[c]
         IN bound[st.ptr] = LastStored(st, {m \in Nodes : heap[m].Definition = st.ptr})

\* ---- C35: WithCaching under ParallelExecutionStrategy ----

\* The scripts handed to the strategy: paths may repeat.
SharedScriptLists == SeqsUpTo(ScriptPaths, MaxScripts)

\* The cache of a middleware that was or was not used before.
SharedCaches == {<<>>, "a.sh" :> Env(<<"A">> :> <<"1">>)}

\* What next returns to the caching executor.
SharedResults ==
  {Return(Env(<<"A">> :> <<"2">>), Nil), Return(NilMap, ExecError("exit 1"))}

NoGoroutine ==
  [pc |-> "none", res |-> Return(NilMap, Nil), access |-> "none", raced |-> FALSE]

\* Goroutine k begins an access a to the map: it races with every
\* goroutine that is inside an access when one of the two is a write.
Racing(gs, k, a) ==
  [h \in DOMAIN gs |->
     IF h = k
     THEN [gs[k] EXCEPT
             !.access = a,
             !.raced = \E o \in DOMAIN gs \ {k} :
                          /\ gs[o].access # "none"
                          /\ "write" \in {a, gs[o].access}]
     ELSE [gs[h] EXCEPT
             !.raced = @ \/ (gs[h].access # "none" /\ "write" \in {a, gs[h].access})]]

\* What a lookup of scriptPath in cache c gives: a racing one may see the
\* map as it was, or half written.
Lookups(c, scriptPath, raced) ==
  {IF scriptPath \in DOMAIN c THEN [ok |-> TRUE, cached |-> c[scriptPath]]
   ELSE [ok |-> FALSE, cached |-> NilMap]}
    \cup (IF raced
          THEN {[ok |-> FALSE, cached |-> NilMap]}
                 \cup {[ok |-> TRUE, cached |-> e] : e \in {NilMap} \cup {c[p] : p \in DOMAIN c}}
          ELSE {})

\* cache := make(...) of an earlier WithCaching(); the strategy is called.
InitShared ==
  /\ IdleWarg
  /\ IdleApply
  /\ IdleWshrc("shared")
  /\ sharedScripts \in SharedScriptLists
  /\ sharedCache \in SharedCaches
  /\ sharedWg = 0
  /\ sharedEnvChan = <<>>
  /\ sharedErrChan = <<>>
  /\ sharedStarted = 0
  /\ goroutines = [k \in 1..Len(sharedScripts) |-> NoGoroutine]
  /\ fatal = FALSE
  /\ sharedPc = "parallel"
  /\ sharedRet = Return(NilMap, Nil)

\* for _, script := range scripts { wg.Add(1); go func(scriptPath string) {...}(script) }
SharedSpawn ==
  /\ ~fatal /\ sharedPc = "parallel" /\ sharedStarted < Len(sharedScripts)
  /\ sharedWg' = sharedWg + 1
  /\ sharedStarted' = sharedStarted + 1
  /\ goroutines' = [goroutines EXCEPT ![sharedStarted + 1].pc = "lookup"]
  /\ UNCHANGED <<sharedScripts, sharedCache, sharedEnvChan, sharedErrChan, fatal,
                 sharedPc, sharedRet, besideShared>>

\* executor(zshPath, scriptPath) is entered: cache[scriptPath] begins.
LookupBegins(k) ==
  /\ ~fatal /\ goroutines[k].pc = "lookup"
  /\ goroutines' = [Racing(goroutines, k, "read") EXCEPT ![k].pc = "reading"]
  /\ UNCHANGED <<sharedScripts, sharedCache, sharedWg, sharedEnvChan, sharedErrChan,
                 sharedStarted, fatal, sharedPc, sharedRet, besideShared>>

\* if cached, ok := cache[scriptPath]; ok { return cached, nil }
LookupEnds(k) ==
  /\ ~fatal /\ goroutines[k].pc = "reading"
  /\ \E l \in Lookups(sharedCache, sharedScripts[k], goroutines[k].raced) :
       goroutines' = [goroutines EXCEPT
                        ![k] = [pc |-> IF l.ok THEN "send" ELSE "next",
                                res |-> Return(l.cached, Nil),
                                access |-> "none", raced |-> FALSE]]
  /\ UNCHANGED <<sharedScripts, sharedCache, sharedWg, sharedEnvChan, sharedErrChan,
                 sharedStarted, fatal, sharedPc, sharedRet, besideShared>>

\* env, err := next(zshPath, scriptPath); if err != nil { return nil, err }
InnerReturns(k) ==
  /\ ~fatal /\ goroutines[k].pc = "next"
  /\ \E r \in SharedResults :
       goroutines' = [goroutines EXCEPT
                        ![k].pc = IF r.err # Nil THEN "send" ELSE "store",
                        ![k].res = IF r.err # Nil THEN Return(NilMap, r.err) ELSE r]
  /\ UNCHANGED <<sharedScripts, sharedCache, sharedWg, sharedEnvChan, sharedErrChan,
                 sharedStarted, fatal, sharedPc, sharedRet, besideShared>>

\* cache[scriptPath] = env begins.
StoreBegins(k) ==
  /\ ~fatal /\ goroutines[k].pc = "store"
  /\ goroutines' = [Racing(goroutines, k, "write") EXCEPT ![k].pc = "writing"]
  /\ UNCHANGED <<sharedScripts, sharedCache, sharedWg, sharedEnvChan, sharedErrChan,
                 sharedStarted, fatal, sharedPc, sharedRet, besideShared>>

\* cache[scriptPath] = env; return env, nil. A racing write may be lost.
StoreEnds(k) ==
  /\ ~fatal /\ goroutines[k].pc = "writing"
  /\ \/ sharedCache' = CacheAfter(sharedCache, sharedScripts[k], goroutines[k].res)
     \/ goroutines[k].raced /\ UNCHANGED sharedCache
  /\ goroutines' = [goroutines EXCEPT
                      ![k].pc = "send", ![k].access = "none", ![k].raced = FALSE]
  /\ UNCHANGED <<sharedScripts, sharedWg, sharedEnvChan, sharedErrChan, sharedStarted,
                 fatal, sharedPc, sharedRet, besideShared>>

\* The runtime detects a map access that overlaps a write: fatal error:
\* concurrent map read and map write (or: concurrent map writes).
Throw(k) ==
  /\ ~fatal /\ goroutines[k].raced
  /\ fatal' = TRUE
  /\ UNCHANGED <<sharedScripts, sharedCache, sharedWg, sharedEnvChan, sharedErrChan,
                 sharedStarted, goroutines, sharedPc, sharedRet, besideShared>>

\* errChan <- fmt.Errorf(...), or envChan <- env; then the deferred wg.Done()
SharedSend(k) ==
  /\ ~fatal /\ goroutines[k].pc = "send"
  /\ IF goroutines[k].res.err # Nil
     THEN /\ BufferedSend(sharedErrChan, Len(sharedScripts))
          /\ sharedErrChan' = Append(sharedErrChan,
                                     ErrorExecuting(sharedScripts[k],
                                                    goroutines[k].res.err))
          /\ UNCHANGED sharedEnvChan
     ELSE /\ BufferedSend(sharedEnvChan, Len(sharedScripts))
          /\ sharedEnvChan' = Append(sharedEnvChan, goroutines[k].res.env)
          /\ UNCHANGED sharedErrChan
  /\ goroutines' = [goroutines EXCEPT ![k].pc = "done"]
  /\ sharedWg' = sharedWg - 1
  /\ UNCHANGED <<sharedScripts, sharedCache, sharedStarted, fatal, sharedPc,
                 sharedRet, besideShared>>

Goroutine == \E k \in 1..Len(sharedScripts) :
  LookupBegins(k) \/ LookupEnds(k) \/ InnerReturns(k) \/ StoreBegins(k)
    \/ StoreEnds(k) \/ Throw(k) \/ SharedSend(k)

\* wg.Wait() returns; close(envChan); close(errChan); the return.
SharedWaitReturns ==
  /\ ~fatal /\ sharedPc = "parallel" /\ sharedStarted = Len(sharedScripts)
  /\ sharedWg = 0
  /\ sharedRet' = ParallelReturn(sharedEnvChan, sharedErrChan)
  /\ sharedPc' = "returned"
  /\ UNCHANGED <<sharedScripts, sharedCache, sharedWg, sharedEnvChan, sharedErrChan,
                 sharedStarted, goroutines, fatal, besideShared>>

NextShared == SharedSpawn \/ Goroutine \/ SharedWaitReturns

SpecShared == InitShared /\ [][NextShared]_vars

\* C35: no two goroutines are inside an access to the cache map at the
\* same time.
C35_NoConcurrentCacheAccess ==
  \A g, h \in DOMAIN goroutines :
    (goroutines[g].access # "none" /\ goroutines[h].access # "none") => g = h

\* The same without the overlapping reads: no access overlaps a write.
NoCacheRace == ~fatal /\ \A g \in DOMAIN goroutines : ~goroutines[g].raced

\* ---- C36: WithErrorRecovery ----

\* How a call of next ends: it returns res, or it panics.
InnerOutcomes ==
  {[panic |-> FALSE, res |-> r] : r \in StrategyResults}
    \cup {[panic |-> TRUE, res |-> Return(NilMap, Nil)]}

\* A deferred function that does not call recover(): the panic goes on
\* into the caller.
AfterDeferredNoRecover(outcome) ==
  IF outcome.panic THEN [pc |-> "propagated", ret |-> Return(NilMap, Nil)]
  ELSE [pc |-> "return", ret |-> outcome.res]

\* defer func() { if r := recover(); r != nil { ... } }(): recover() stops
\* the panic and the executor, whose results are unnamed, returns their
\* zero values; without a panic it returns what next returned.
AfterDeferred(outcome) ==
  IF outcome.panic THEN [pc |-> "return", ret |-> Return(NilMap, Nil)]
  ELSE [pc |-> "return", ret |-> outcome.res]

\* merged := make(map[string]string)
InitRecovery ==
  /\ IdleWarg
  /\ IdleApply
  /\ IdleWshrc("recovery")
  /\ recScripts \in ScriptLists
  /\ recAt = 0
  /\ recPc = "strategy"
  /\ recInner = [panic |-> FALSE, res |-> Return(NilMap, Nil)]
  /\ stderr = <<>>
  /\ recRet = Return(NilMap, Nil)
  /\ recMerged = <<>>
  /\ recStrategyRet = Return(NilMap, Nil)
  /\ recHistory = <<>>

\* env, err := executor(zshPath, script): the deferred function is
\* registered and next is called.
RecoveryCall ==
  /\ recPc = "strategy" /\ recAt < Len(recScripts)
  /\ recPc' = "next"
  /\ UNCHANGED <<recScripts, recAt, recInner, stderr, recRet, recMerged,
                 recStrategyRet, recHistory, besideRecovery>>

\* next(zshPath, scriptPath) returns or panics.
InnerEnds ==
  /\ recPc = "next"
  /\ recInner' \in InnerOutcomes
  /\ recPc' = "deferred"
  /\ UNCHANGED <<recScripts, recAt, stderr, recRet, recMerged, recStrategyRet,
                 recHistory, besideRecovery>>

\* The deferred function runs: fmt.Fprintf(os.Stderr, "wsh: panic recovered
\* while executing %s: %v\n", scriptPath, r) when recover() gave a value.
Deferred ==
  /\ recPc = "deferred"
  /\ stderr' = IF recInner.panic THEN Append(stderr, recScripts[recAt + 1])
               ELSE stderr
  /\ recRet' = AfterDeferred(recInner).ret
  /\ recPc' = AfterDeferred(recInner).pc
  /\ UNCHANGED <<recScripts, recAt, recInner, recMerged, recStrategyRet,
                 recHistory, besideRecovery>>

\* if err != nil { return nil, fmt.Errorf(...) }
\* for k, v := range env { merged[k] = v }
RecoveryReturn ==
  /\ recPc = "return"
  /\ recHistory' = Append(recHistory, [inner |-> recInner, ret |-> recRet])
  /\ IF recRet.err # Nil
     THEN /\ recStrategyRet' = Return(NilMap,
                                      ErrorExecuting(recScripts[recAt + 1], recRet.err))
          /\ recPc' = "returned"
          /\ UNCHANGED <<recMerged, recAt>>
     ELSE /\ recMerged' = MergeInto(recMerged, recRet.env)
          /\ recAt' = recAt + 1
          /\ recPc' = "strategy"
          /\ UNCHANGED recStrategyRet
  /\ UNCHANGED <<recScripts, recInner, stderr, recRet, besideRecovery>>

\* The loop is over: return merged, nil
RecoveryDone ==
  /\ recPc = "strategy" /\ recAt = Len(recScripts)
  /\ recStrategyRet' = Return(Env(recMerged), Nil)
  /\ recPc' = "returned"
  /\ UNCHANGED <<recScripts, recAt, recInner, stderr, recRet, recMerged, recHistory,
                 besideRecovery>>

NextRecovery ==
  RecoveryCall \/ InnerEnds \/ Deferred \/ RecoveryReturn \/ RecoveryDone

SpecRecovery == InitRecovery /\ [][NextRecovery]_vars

\* C36: a panic of next never reaches the caller; the executor then
\* returns a nil map and a nil error, and the strategy goes on to the next
\* script with its merged map as it was, as after a script that succeeded
\* and set nothing.
C36_PanicRecoveredAsSuccess ==
  /\ [](recPc # "propagated")
  /\ [](\A k \in 1..Len(recHistory) :
          recHistory[k].inner.panic => recHistory[k].ret = Return(NilMap, Nil))
  /\ [][(recPc = "return" /\ recInner.panic)
        => /\ recPc' = "strategy"
           /\ recAt' = recAt + 1
           /\ recMerged' = recMerged
           /\ recStrategyRet' = recStrategyRet]_vars
  /\ []((recPc = "returned" /\ \A k \in 1..Len(recHistory) :
                                  recHistory[k].ret.err = Nil)
        => recStrategyRet.err = Nil)

\* Two scripts, the first panicked, and the strategy returned without error.
C36_Witness ==
  /\ recPc = "returned"
  /\ Len(recHistory) = 2
  /\ recHistory[1].inner.panic
  /\ ~recHistory[2].inner.panic
  /\ recStrategyRet = Return(recHistory[2].ret.env, Nil)
  /\ stderr = <<recScripts[1]>>

\* ---- C37: names of a single dash and two or more characters ----

\* New().Flag(&a, {"-nn"}): normalizeFlagName leaves "-nn" as it is.
MultiLetterAlone == ParserFlag(<<New>>, <<>>, 1, << <<"-", "n", "n">> >>, FALSE)

\* New().Flag(&a, {"-nn"}).Flag(&b, {"n"}).Flag(&c, {"v"}): -n a switch,
\* -v a value flag.
MultiLetterWithShort ==
  LET r1 == ParserFlag(MultiLetterAlone.parsers, MultiLetterAlone.libDefs, 2,
                       << <<"n">> >>, TRUE)
  IN ParserFlag(r1.parsers, r1.libDefs, 3, << <<"v">> >>, FALSE)

MultiLetterTokens == {<<"-", "n", "n">>, <<"-", "-", "n", "n">>, <<"-", "n">>,
                      <<"-", "v">>, <<"x">>, DashDash}

InitApplyMultiLetter ==
  \E fx \in {MultiLetterAlone, MultiLetterWithShort} :
    InitApplyOn(fx, SeqsUpTo(MultiLetterTokens, MaxApplyArgs))

SpecApplyMultiLetter == InitApplyMultiLetter /\ [][NextApply]_vars

\* A single dash followed by two or more characters.
MultiLetter(name) == Len(name) > 2 /\ name[1] = "-" /\ name[2] # "-"

OnlyMultiLetter(d) == \A k \in 1..Len(defs[d].Names) : MultiLetter(defs[d].Names[k])

\* C37: a node that comes from a single-dash token of more than two
\* characters was found under one letter of the token, never under the
\* whole token, and a failure on such a token names one letter; so no
\* node is ever an occurrence of a definition whose names are all of that
\* form, and the variable bound to it keeps its zero value.
C37_MultiLetterNameNeverMatched ==
  /\ [](\A m \in Nodes :
          /\ ~OnlyMultiLetter(heap[m].Definition)
          /\ MultiLetter(args[origin[m][1]])
               => /\ origin[m][2] \in 2..Len(args[origin[m][1]])
                  /\ ShortFlag(args[origin[m][1]], origin[m][2])
                       \in Range(defs[heap[m].Definition].Names))
  /\ []((pc = "failed" /\ i <= Len(args) /\ MultiLetter(args[i]))
          => /\ j \in 2..Len(args[i])
             /\ err.flag = ShortFlag(args[i], j))
  /\ [](pc = "returned"
          => \A c \in 1..Len(parsers[libParser].setters) :
               LET st == parsers[libParser].setters[c]
               IN OnlyMultiLetter(st.ptr) => bound[st.ptr] = Zero(st))

\* -nn was given, split into -n and -n, and Parse returned with the
\* variable of -nn untouched.
C37_Witness ==
  /\ pc = "returned" /\ errors = <<>>
  /\ \E k \in 1..Len(args) : args[k] = <<"-", "n", "n">> /\ k \in scanned
  /\ Cardinality({m \in Nodes : origin[m][1] = 1}) = 2
  /\ bound[1] = Zero(parsers[libParser].setters[1])

\* ---- C38: flags.ParseArgs ----

\* flagRegistry after AddFlags: -v/--verbose on a bool, -n on a string
\* that requires a value.
FlagRegistry ==
  << [Short |-> <<"v">>, Long |-> <<"v", "e", "r", "b", "o", "s", "e">>,
      ValueRequired |-> FALSE, NonEmptyValueRequired |-> FALSE, kind |-> "bool"],
     [Short |-> <<"n">>, Long |-> <<>>,
      ValueRequired |-> TRUE, NonEmptyValueRequired |-> FALSE, kind |-> "string"] >>

FlagTokens ==
  {<<"-", "v">>, <<"-", "n">>, <<"-", "-", "v", "e", "r", "b", "o", "s", "e">>,
   <<"-", "x">>, <<"x">>, <<"-", "v", "n">>, <<" ", "y", " ">>}

FlagArgLists == SeqsUpTo(FlagTokens, MaxFlagArgs)

\* strings.Trim(arg, " ")
RECURSIVE TrimSpaces(_)
TrimSpaces(s) ==
  IF s = <<>> THEN s
  ELSE IF Head(s) = " " THEN TrimSpaces(Tail(s))
  ELSE IF s[Len(s)] = " " THEN TrimSpaces(SubSeq(s, 1, Len(s) - 1))
  ELSE s

\* strings.TrimLeft(arg, "-")
RECURSIVE TrimLeftDashes(_)
TrimLeftDashes(s) ==
  IF s # <<>> /\ Head(s) = "-" THEN TrimLeftDashes(Tail(s)) ELSE s

\* for _, char := range []rune(arg)[1:] { if char == ' ' { continue }; ... "-%c" }
RECURSIVE ShortFlags(_)
ShortFlags(s) ==
  IF s = <<>> THEN <<>>
  ELSE IF Head(s) = " " THEN ShortFlags(Tail(s))
  ELSE <<Dash \o <<Head(s)>>>> \o ShortFlags(Tail(s))

RECURSIVE preprocessArgs(_)
preprocessArgs(as) ==
  IF as = <<>> THEN <<>>
  ELSE (IF ~HasPrefix(Head(as), Dash) \/ HasPrefix(Head(as), DashDash)
        THEN <<TrimSpaces(Head(as))>>
        ELSE ShortFlags(Tail(Head(as))))
         \o preprocessArgs(Tail(as))

\* matchFlag: the first flag of the list the argument names, 0 for nil.
matchFlag(flags, arg) ==
  LET a == TrimLeftDashes(arg)
      hits == {k \in 1..Len(flags) :
                 \/ HasPrefix(arg, DashDash) /\ a = flags[k].Long
                 \/ HasPrefix(arg, Dash) /\ a = flags[k].Short}
  IN IF hits = {} THEN 0 ELSE CHOOSE k \in hits : \A h \in hits : k <= h

\* for f == nil { ... }: the loop goes on while f is nil.
StaysInLoop(f) == f = 0

\* WFlag.setValue(val) on the variables vs: true on a bool, a string on a
\* string or, parsed, on a bool; anything else is an error, which ParseArgs
\* drops.
setValue(vs, k, val) ==
  IF FlagRegistry[k].kind = "string"
  THEN IF val = True THEN vs ELSE [vs EXCEPT ![k] = val]
  ELSE IF val = True THEN [vs EXCEPT ![k] = True]
  ELSE vs

\* strings.Contains(arg, " ")
ContainsSpace(arg) == \E k \in 1..Len(arg) : arg[k] = " "

\* pArgs := preprocessArgs(args); var curValueFlag *WFlag
InitFlags ==
  /\ IdleWarg
  /\ IdleApply
  /\ IdleWshrc("flags")
  /\ \E as \in FlagArgLists : pArgs = preprocessArgs(as)
  /\ argAt = 1
  /\ matched = 0
  /\ curValueFlag = 0
  /\ flagValues = [k \in 1..Len(FlagRegistry) |-> <<>>]
  /\ spins = 0
  /\ flagsPc = "range"
  /\ flagsRet = NoError

\* for _, arg := range pArgs { var f *WFlag; if strings.HasPrefix(arg, "-") {
RangeNext ==
  /\ flagsPc = "range" /\ argAt <= Len(pArgs)
  /\ matched' = 0
  /\ spins' = 0
  /\ flagsPc' = IF HasPrefix(pArgs[argAt], Dash) THEN "match" ELSE "matched"
  /\ UNCHANGED <<pArgs, argAt, curValueFlag, flagValues, flagsRet, besideFlags>>

\* The range is over: return nil
RangeDone ==
  /\ flagsPc = "range" /\ argAt > Len(pArgs)
  /\ flagsPc' = "returned"
  /\ UNCHANGED <<pArgs, argAt, matched, curValueFlag, flagValues, spins, flagsRet,
                 besideFlags>>

\* for f == nil { f = matchFlag(curFlagContext, arg) }: one pass.
MatchFlag ==
  /\ flagsPc = "match" /\ spins < MaxSpins
  /\ matched' = matchFlag(FlagRegistry, pArgs[argAt])
  /\ spins' = spins + 1
  /\ flagsPc' = IF StaysInLoop(matched') THEN "match" ELSE "matched"
  /\ UNCHANGED <<pArgs, argAt, curValueFlag, flagValues, flagsRet, besideFlags>>

\* if f == nil { if curValueFlag == nil || (...) { return fmt.Errorf("unknown
\* argument: %s", arg) }
UnknownArgument ==
  /\ flagsPc = "matched" /\ matched = 0
  /\ \/ curValueFlag = 0
     \/ HasPrefix(pArgs[argAt], Dash) /\ ~ContainsSpace(pArgs[argAt])
  /\ flagsRet' = [kind |-> "unknown argument", flag |-> pArgs[argAt]]
  /\ flagsPc' = "returned"
  /\ UNCHANGED <<pArgs, argAt, matched, curValueFlag, flagValues, spins, besideFlags>>

\* curValueFlag.setValue(arg)
ValueOfPending ==
  /\ flagsPc = "matched" /\ matched = 0
  /\ ~(\/ curValueFlag = 0
       \/ HasPrefix(pArgs[argAt], Dash) /\ ~ContainsSpace(pArgs[argAt]))
  /\ flagValues' = setValue(flagValues, curValueFlag, pArgs[argAt])
  /\ argAt' = argAt + 1
  /\ flagsPc' = "range"
  /\ UNCHANGED <<pArgs, matched, curValueFlag, spins, flagsRet, besideFlags>>

\* f.setValue(true); if f.ValueRequired || f.NonEmptyValueRequired {
\* curValueFlag = f }
FlagMatched ==
  /\ flagsPc = "matched" /\ matched # 0
  /\ flagValues' = setValue(flagValues, matched, True)
  /\ curValueFlag' = IF FlagRegistry[matched].ValueRequired
                        \/ FlagRegistry[matched].NonEmptyValueRequired
                     THEN matched ELSE curValueFlag
  /\ argAt' = argAt + 1
  /\ flagsPc' = "range"
  /\ UNCHANGED <<pArgs, matched, spins, flagsRet, besideFlags>>

NextFlags ==
  RangeNext \/ RangeDone \/ MatchFlag \/ UnknownArgument \/ ValueOfPending
    \/ FlagMatched

SpecFlags == InitFlags /\ [][NextFlags]_vars

\* The steps ParseArgs has left at the most: three for every argument not
\* yet passed, less what it has done for the one at hand.
FlagsVariant ==
  IF flagsPc = "returned" THEN 0
  ELSE 3 * (Len(pArgs) + 1 - argAt)
         + (CASE flagsPc = "range" -> 3
              [] flagsPc = "match" -> 2
              [] flagsPc = "matched" -> 1)

\* C38: every step of ParseArgs brings it nearer to its return, and
\* matchFlag is called once for an argument: when it finds no flag for a
\* dash-prefixed argument the function goes on to the unknown-argument
\* error or to the value of the pending flag.
C38_ParseArgsTerminates ==
  /\ [][FlagsVariant' < FlagsVariant]_vars
  /\ [](flagsPc = "match" => spins = 0)

====
